---- MODULE Spec2Model ----
(***************************************************************************)
(* WeeklyPlannerPro: the entity store (server/storage.ts, MemStorage, the  *)
(* store the routes import), the REST handlers of server/routes.ts and the *)
(* zod schemas of shared/schema.ts.                                        *)
(*                                                                         *)
(* A table is a function from the Map key to the stored row.  A request is *)
(* issued with a session id: the user id passport serialised at login, or  *)
(* NoSession.  Handlers with one storage write are one action; the         *)
(* POST /api/weekly-plans handler is one action per await, so that two     *)
(* handlers can interleave.  The routes run on MemStorage; PgStorage       *)
(* (client/vite.config.ts) is modelled beside it on the variable pg and is *)
(* driven by direct IStorage calls.                                        *)
(***************************************************************************)
EXTENDS Integers, Sequences, FiniteSets, TLC

VARIABLES
  users,            \* MemStorage.users            : id -> User
  grades,           \* MemStorage.grades           : id -> Grade
  subjects,         \* MemStorage.subjects         : id -> Subject
  teacherGrades,    \* MemStorage.teacherGrades    : id -> TeacherGrade
  teacherSubjects,  \* MemStorage.teacherSubjects  : id -> TeacherSubject
  planningWeeks,    \* MemStorage.planningWeeks    : id -> PlanningWeek
  weeklyPlans,      \* MemStorage.weeklyPlans      : id -> WeeklyPlan
  dailyPlans,       \* MemStorage.dailyPlans       : id -> DailyPlan
  nextId,           \* the eight id counters of MemStorage
  now,              \* the wall clock read by new Date()
  pg,               \* the tables and sequences of the database behind PgStorage
  call,             \* the last call made on the storage classes directly
  sessions,         \* user ids held by open sessions (passport.serializeUser)
  reqs,             \* POST /api/weekly-plans handlers in flight, per slot
  resp,             \* the last response sent
  tick              \* flips with every response sent

tables == <<users, grades, subjects, teacherGrades, teacherSubjects,
            planningWeeks, weeklyPlans, dailyPlans, nextId>>

vars == <<users, grades, subjects, teacherGrades, teacherSubjects,
          planningWeeks, weeklyPlans, dailyPlans, nextId, now, pg, call,
          sessions, reqs, resp, tick>>

(***************************************************************************)
(* Bounds of the model.                                                    *)
(***************************************************************************)
MaxTeacherSubjects == 3  \* teacher-subject ids handed out (one is seeded)
MaxWeeklyPlans == 2      \* weekly-plan ids handed out
MaxDailyPlans == 2       \* daily-plan ids handed out
MaxTime == 1             \* last instant of the clock
NumSlots == 2            \* POST /api/weekly-plans handlers in flight at once

Slots == 1..NumSlots
NoSession == 0

\* the value undefined where a number is expected; it equals no id
UndefinedId == -1

(***************************************************************************)
(* Map helpers (Map.set, Map.delete, Map.values).                          *)
(***************************************************************************)
MapSet(m, k, v) == [x \in (DOMAIN m) \cup {k} |-> IF x = k THEN v ELSE m[x]]
MapDelete(m, k) == [x \in (DOMAIN m) \ {k} |-> m[x]]
MapValues(m) == {m[k] : k \in DOMAIN m}
EmptyMap == [x \in {} |-> 0]

\* { ...a, ...b }: the fields of b override those of a
Spread(a, b) ==
  [f \in (DOMAIN a) \cup (DOMAIN b) |-> IF f \in DOMAIN b THEN b[f] ELSE a[f]]

(***************************************************************************)
(* Passwords.  A string is the tuple of its ':'-separated parts; a part is *)
(* a literal <<"lit", s>> or the hex digest <<"scrypt", pw, salt>>.        *)
(* scrypt is a function of (password, salt).                               *)
(***************************************************************************)
Lit(s) == << <<"lit", s>> >>
Scrypt(pw, salt) == <<"scrypt", pw, salt>>
NoPart == <<"undefined">>

hashPassword(plainPassword, salt) ==
  <<salt, Scrypt(plainPassword, salt)>>

\* a comparison that accepts whatever has a hash part
verifyPasswordAnyHash(storedPassword, suppliedPassword) ==
  Len(storedPassword) >= 2
verifyPassword(storedPassword, suppliedPassword) ==
  LET salt == storedPassword[1]
      hash == IF Len(storedPassword) >= 2 THEN storedPassword[2] ELSE NoPart
  IN  hash = Scrypt(suppliedPassword, salt)

Salts == { <<"lit", "s1">> }

(***************************************************************************)
(* MemStorage constructor and seedInitialData.  The create and assign      *)
(* methods are async: each runs to its end when called and returns a       *)
(* Promise, so teacher.id, grade3.id, mathSubject.id and scienceSubject.id *)
(* in seedInitialData are undefined.  The seeded TeacherGrade and the      *)
(* first TeacherSubject hold undefined ids, and the second                 *)
(* assignTeacherToSubject finds the first row and inserts nothing.         *)
(***************************************************************************)
SeedUsers(sa, st) ==
  (1 :> [id |-> 1, username |-> "admin", password |-> hashPassword(Lit("admin123"), sa),
         fullName |-> "System Administrator", isAdmin |-> TRUE])
  @@
  (2 :> [id |-> 2, username |-> "teacher", password |-> hashPassword(Lit("teacher123"), st),
         fullName |-> "John Smith", isAdmin |-> FALSE])

SeedGrades ==
  (1 :> [id |-> 1, name |-> "Grade 1"]) @@
  (2 :> [id |-> 2, name |-> "Grade 2"]) @@
  (3 :> [id |-> 3, name |-> "Grade 3"])

SeedSubjects ==
  (1 :> [id |-> 1, name |-> "Mathematics", type |-> "standard"]) @@
  (2 :> [id |-> 2, name |-> "Science", type |-> "standard"]) @@
  (3 :> [id |-> 3, name |-> "English", type |-> "standard"]) @@
  (4 :> [id |-> 4, name |-> "Art", type |-> "art"]) @@
  (5 :> [id |-> 5, name |-> "PE", type |-> "pe"])

SeedTeacherGrades ==
  (1 :> [id |-> 1, teacherId |-> UndefinedId, gradeId |-> UndefinedId])

SeedTeacherSubjects ==
  (1 :> [id |-> 1, teacherId |-> UndefinedId, gradeId |-> UndefinedId,
         subjectId |-> UndefinedId])

SeedPlanningWeeks ==
  (1 :> [id |-> 1, weekNumber |-> 15, year |-> 2024, startDate |-> 20240115,
         endDate |-> 20240119, isActive |-> TRUE]) @@
  (2 :> [id |-> 2, weekNumber |-> 16, year |-> 2024, startDate |-> 20240122,
         endDate |-> 20240126, isActive |-> TRUE])

SeedNextId ==
  [userId |-> 3, gradeId |-> 4, subjectId |-> 6, teacherGradeId |-> 2,
   teacherSubjectId |-> 2, planningWeekId |-> 3, weeklyPlanId |-> 1,
   dailyPlanId |-> 1]

\* A database with the rows of the seeded MemStorage that its NOT NULL
\* columns admit, and sequences at the values of MemStorage's counters
SeedPg(sa, st) ==
  [users |-> SeedUsers(sa, st), grades |-> SeedGrades, subjects |-> SeedSubjects,
   teacherGrades |-> EmptyMap, teacherSubjects |-> EmptyMap,
   planningWeeks |-> SeedPlanningWeeks, weeklyPlans |-> EmptyMap,
   dailyPlans |-> EmptyMap, nextId |-> SeedNextId]

IdleReq == [pc |-> "idle"]
NoResp == [route |-> "", status |-> 0, message |-> "", by |-> NoSession]

NoCall == [op |-> "", flip |-> 0]

InitStore ==
  /\ \E sa \in Salts, st \in Salts :
        users = SeedUsers(sa, st) /\ pg = SeedPg(sa, st)
  /\ grades = SeedGrades
  /\ subjects = SeedSubjects
  /\ teacherGrades = SeedTeacherGrades
  /\ teacherSubjects = SeedTeacherSubjects
  /\ planningWeeks = SeedPlanningWeeks
  /\ weeklyPlans = EmptyMap
  /\ dailyPlans = EmptyMap
  /\ nextId = SeedNextId
  /\ now = 0
  /\ sessions = {}
  /\ reqs = [s \in Slots |-> IdleReq]
  /\ resp = NoResp
  /\ tick = 0

Init == InitStore /\ call = NoCall

(***************************************************************************)
(* MemStorage: reads.                                                      *)
(***************************************************************************)
Undefined == [undefined |-> TRUE]

getUser(id) == IF id \in DOMAIN users THEN users[id] ELSE Undefined

\* the first user in insertion order (ascending id) with that username
getUserByUsername(username) ==
  LET hits == {k \in DOMAIN users : users[k].username = username}
  IN  IF hits = {} THEN Undefined
      ELSE users[CHOOSE k \in hits : \A j \in hits : k <= j]

verifyUserCredentials(username, password) ==
  LET user == getUserByUsername(username)
  IN  IF user = Undefined THEN Undefined
      ELSE IF verifyPassword(user.password, password) THEN user
      ELSE Undefined

getSubject(id) == IF id \in DOMAIN subjects THEN subjects[id] ELSE Undefined

getTeacherSubjectsForGrade(teacherId, gradeId) ==
  LET subjectIds == {ts.subjectId : ts \in
                       {r \in MapValues(teacherSubjects) :
                          r.teacherId = teacherId /\ r.gradeId = gradeId}}
  IN  {getSubject(id) : id \in subjectIds} \ {Undefined}

getPlanningWeek(id) ==
  IF id \in DOMAIN planningWeeks THEN planningWeeks[id] ELSE Undefined

getWeeklyPlan(id) ==
  IF id \in DOMAIN weeklyPlans THEN weeklyPlans[id] ELSE Undefined

listGradeWeekPlans(gradeId, weekId) ==
  {plan \in MapValues(weeklyPlans) : plan.gradeId = gradeId /\ plan.weekId = weekId}

listTeacherWeeklyPlans(teacherId) ==
  {plan \in MapValues(weeklyPlans) : plan.teacherId = teacherId}

getDailyPlan(id) ==
  IF id \in DOMAIN dailyPlans THEN dailyPlans[id] ELSE Undefined

listDailyPlansForWeeklyPlan(weeklyPlanId) ==
  {plan \in MapValues(dailyPlans) : plan.weeklyPlanId = weeklyPlanId}

(***************************************************************************)
(* MemStorage: writes, as the table after the call.                        *)
(***************************************************************************)
createWeeklyPlan(plan) ==
  MapSet(weeklyPlans, nextId.weeklyPlanId,
         Spread(plan, [id |-> nextId.weeklyPlanId, createdAt |-> now, updatedAt |-> now]))

updateWeeklyPlanNotes(id, notes) ==
  MapSet(weeklyPlans, id, Spread(weeklyPlans[id], [notes |-> notes, updatedAt |-> now]))

createDailyPlan(plan) ==
  MapSet(dailyPlans, nextId.dailyPlanId, Spread(plan, [id |-> nextId.dailyPlanId]))

updateDailyPlan(id, planData) ==
  MapSet(dailyPlans, id, Spread(dailyPlans[id], planData))

(***************************************************************************)
(* Sessions and the two middlewares.                                       *)
(***************************************************************************)
\* a session that keeps the record the user had when the store was seeded
reqUserAsSeeded(sid) ==
  LET seeded == SeedUsers(CHOOSE sa \in Salts : TRUE, CHOOSE st \in Salts : TRUE)
  IN  IF sid \in sessions /\ sid \in DOMAIN seeded THEN seeded[sid] ELSE Undefined

\* passport.deserializeUser: req.user is the stored user of the session's id
reqUser(sid) == IF sid \in sessions THEN getUser(sid) ELSE Undefined

isAuthenticated(sid) == reqUser(sid) # Undefined

isAdmin(sid) == isAuthenticated(sid) /\ reqUser(sid).isAdmin

\* res.status(status).json(...): by is the session id, body the request's
\* parameters, data the ids of the weekly plans whose rows (the plan itself or
\* its daily plans) the payload carries
Reply(route, status, message, by, body, data) ==
  /\ resp' = [route |-> route, status |-> status, message |-> message,
              by |-> by, body |-> body, data |-> data]
  /\ tick' = 1 - tick

\* res.status(status).json(json), for the routes whose payload is modelled
ReplyJson(route, status, by, body, data, json) ==
  /\ resp' = [route |-> route, status |-> status, message |-> "",
              by |-> by, body |-> body, data |-> data, json |-> json]
  /\ tick' = 1 - tick

\* { id, username, fullName, isAdmin } of a user
publicUser(user) ==
  [id |-> user.id, username |-> user.username, fullName |-> user.fullName,
   isAdmin |-> user.isAdmin]

(***************************************************************************)
(* POST /api/login                                                         *)
(***************************************************************************)
LoginIn ==
  { <<"admin", Lit("admin123")>>, <<"teacher", Lit("teacher123")>>,
    <<"teacher", Lit("admin123")>> }

Login(username, password) ==
  LET user == verifyUserCredentials(username, password)
  IN  /\ IF user = Undefined
         THEN /\ Reply("POST /api/login", 401, "Invalid username or password",
                       NoSession, username, {})
              /\ UNCHANGED sessions
         ELSE /\ ReplyJson("POST /api/login", 200, user.id, username, {},
                           publicUser(user))
              /\ sessions' = sessions \cup {user.id}
      /\ UNCHANGED <<tables, now, pg, call, reqs>>

(***************************************************************************)
(* POST /api/weekly-plans, one action per await.                           *)
(***************************************************************************)
WP == "POST /api/weekly-plans"

\* insertWeeklyPlanSchema: teacherId, gradeId, subjectId, weekId are required
ValidWeeklyPlan(planData) ==
  {"teacherId", "gradeId", "subjectId", "weekId"} \subseteq DOMAIN planData

\* a weaker test: any subject of the grade will do
hasAnySubject(subjectsForGrade, subjectId) == subjectsForGrade # {}

hasSubject(subjectsForGrade, subjectId) ==
  \E subject \in subjectsForGrade : subject.id = subjectId

\* a weaker test: the week only has to exist
weekExists(week) == week # Undefined

weekIsActive(week) == week # Undefined /\ week.isActive

\* a coarser test: the subject is not compared
duplicatePlanOfTeacher(existingPlans, planData) ==
  \E p \in existingPlans : p.teacherId = planData.teacherId

duplicatePlan(existingPlans, planData) ==
  \E p \in existingPlans :
     p.teacherId = planData.teacherId /\ p.subjectId = planData.subjectId

InFlight == Cardinality({s \in Slots : reqs[s].pc # "idle"})

\* a body whose teacherId is taken as sent when it carries one
withBodyTeacherId(body, currentUser) ==
  IF "teacherId" \in DOMAIN body THEN body
  ELSE Spread(body, [teacherId |-> currentUser.id])

\* { ...req.body, teacherId: req.user.id }
withRequesterId(body, currentUser) ==
  Spread(body, [teacherId |-> currentUser.id])

\* isAuthenticated, the schema, then the assignment check
WPStart(s, sid, body) ==
  /\ reqs[s].pc = "idle"
  /\ IF ~isAuthenticated(sid)
     THEN /\ Reply(WP, 401, "Unauthorized", sid, body, {})
          /\ UNCHANGED reqs
     ELSE LET planData == withRequesterId(body, reqUser(sid)) IN
          IF ~ValidWeeklyPlan(planData)
          THEN /\ Reply(WP, 400, "Required", sid, body, {})
               /\ UNCHANGED reqs
          ELSE IF ~hasSubject(getTeacherSubjectsForGrade(planData.teacherId,
                                                         planData.gradeId),
                              planData.subjectId)
          THEN /\ Reply(WP, 403,
                        "You are not assigned to teach this subject in this grade",
                        sid, body, {})
               /\ UNCHANGED reqs
          ELSE /\ nextId.weeklyPlanId + InFlight <= MaxWeeklyPlans
               /\ reqs' = [reqs EXCEPT ![s] =
                             [pc |-> "week", by |-> sid, body |-> body,
                              planData |-> planData]]
               /\ UNCHANGED <<resp, tick>>
  /\ UNCHANGED <<tables, now, pg, call, sessions>>

WPCheckWeek(s) ==
  /\ reqs[s].pc = "week"
  /\ IF ~weekIsActive(getPlanningWeek(reqs[s].planData.weekId))
     THEN /\ Reply(WP, 400, "The selected planning week is not active",
                   reqs[s].by, reqs[s].body, {})
          /\ reqs' = [reqs EXCEPT ![s] = IdleReq]
     ELSE /\ reqs' = [reqs EXCEPT ![s].pc = "dup"]
          /\ UNCHANGED <<resp, tick>>
  /\ UNCHANGED <<tables, now, pg, call, sessions>>

WPCheckDup(s) ==
  /\ reqs[s].pc = "dup"
  /\ IF duplicatePlan(listGradeWeekPlans(reqs[s].planData.gradeId,
                                         reqs[s].planData.weekId),
                      reqs[s].planData)
     THEN /\ Reply(WP, 400, "A plan for this subject in this week already exists",
                   reqs[s].by, reqs[s].body, {})
          /\ reqs' = [reqs EXCEPT ![s] = IdleReq]
     ELSE /\ reqs' = [reqs EXCEPT ![s].pc = "insert"]
          /\ UNCHANGED <<resp, tick>>
  /\ UNCHANGED <<tables, now, pg, call, sessions>>

WPInsert(s) ==
  /\ reqs[s].pc = "insert"
  /\ weeklyPlans' = createWeeklyPlan(reqs[s].planData)
  /\ nextId' = [nextId EXCEPT !.weeklyPlanId = @ + 1]
  /\ Reply(WP, 201, "", reqs[s].by, reqs[s].body, {nextId.weeklyPlanId})
  /\ reqs' = [reqs EXCEPT ![s] = IdleReq]
  /\ UNCHANGED <<users, grades, subjects, teacherGrades, teacherSubjects,
                 planningWeeks, dailyPlans, now, pg, call, sessions>>

(***************************************************************************)
(* Ownership check shared by the per-plan routes.                          *)
(***************************************************************************)
\* plan.teacherId !== currentUser.id && !currentUser.isAdmin
notOwnerNorAdmin(plan, currentUser) ==
  plan.teacherId # currentUser.id /\ ~currentUser.isAdmin

(***************************************************************************)
(* PUT /api/weekly-plans/:id/notes                                         *)
(***************************************************************************)
PN == "PUT /api/weekly-plans/:id/notes"

PutNotes(sid, id, notes) ==
  LET plan == getWeeklyPlan(id)
      rq == [id |-> id, notes |-> notes]
  IN
  /\ IF ~isAuthenticated(sid)
     THEN Reply(PN, 401, "Unauthorized", sid, rq, {}) /\ UNCHANGED weeklyPlans
     ELSE IF plan = Undefined
     THEN Reply(PN, 404, "Weekly plan not found", sid, rq, {}) /\ UNCHANGED weeklyPlans
     ELSE IF notOwnerNorAdmin(plan, reqUser(sid))
     THEN Reply(PN, 403, "Forbidden", sid, rq, {}) /\ UNCHANGED weeklyPlans
     ELSE /\ weeklyPlans' = updateWeeklyPlanNotes(id, notes)
          /\ Reply(PN, 200, "", sid, rq, {id})
  /\ UNCHANGED <<users, grades, subjects, teacherGrades, teacherSubjects,
                 planningWeeks, dailyPlans, nextId, now, pg, call, sessions, reqs>>

(***************************************************************************)
(* POST /api/daily-plans                                                   *)
(***************************************************************************)
PD == "POST /api/daily-plans"

\* insertDailyPlanSchema: weeklyPlanId and dayOfWeek (1..5) are required
ValidDailyPlan(planData) ==
  /\ {"weeklyPlanId", "dayOfWeek"} \subseteq DOMAIN planData
  /\ planData.dayOfWeek >= 1 /\ planData.dayOfWeek <= 5

\* insertDailyPlanSchema.partial(): every field optional, same ranges
ValidPartialDailyPlan(planData) ==
  "dayOfWeek" \in DOMAIN planData =>
     (planData.dayOfWeek >= 1 /\ planData.dayOfWeek <= 5)

PostDailyPlan(sid, body) ==
  /\ IF ~isAuthenticated(sid)
     THEN Reply(PD, 401, "Unauthorized", sid, body, {}) /\ UNCHANGED <<dailyPlans, nextId>>
     ELSE IF ~ValidDailyPlan(body)
     THEN Reply(PD, 400, "Invalid", sid, body, {}) /\ UNCHANGED <<dailyPlans, nextId>>
     ELSE IF getWeeklyPlan(body.weeklyPlanId) = Undefined
     THEN Reply(PD, 404, "Weekly plan not found", sid, body, {})
          /\ UNCHANGED <<dailyPlans, nextId>>
     ELSE IF notOwnerNorAdmin(getWeeklyPlan(body.weeklyPlanId), reqUser(sid))
     THEN Reply(PD, 403, "Forbidden", sid, body, {}) /\ UNCHANGED <<dailyPlans, nextId>>
     ELSE IF \E p \in listDailyPlansForWeeklyPlan(body.weeklyPlanId) :
                p.dayOfWeek = body.dayOfWeek
     THEN Reply(PD, 400, "A plan for this day already exists", sid, body, {})
          /\ UNCHANGED <<dailyPlans, nextId>>
     ELSE /\ nextId.dailyPlanId <= MaxDailyPlans
          /\ dailyPlans' = createDailyPlan(body)
          /\ nextId' = [nextId EXCEPT !.dailyPlanId = @ + 1]
          /\ Reply(PD, 201, "", sid, body, {body.weeklyPlanId})
  /\ UNCHANGED <<users, grades, subjects, teacherGrades, teacherSubjects,
                 planningWeeks, weeklyPlans, now, pg, call, sessions, reqs>>

(***************************************************************************)
(* PUT /api/daily-plans/:id                                                *)
(***************************************************************************)
UD == "PUT /api/daily-plans/:id"

\* the sibling-day check of the update route
duplicateDay(existingDailyPlans, id, dayOfWeek) ==
  \E p \in existingDailyPlans : p.id # id /\ p.dayOfWeek = dayOfWeek

PutDailyPlan(sid, id, body) ==
  LET dailyPlan == getDailyPlan(id)
      rq == [id |-> id, body |-> body]
  IN
  /\ IF ~isAuthenticated(sid)
     THEN Reply(UD, 401, "Unauthorized", sid, rq, {}) /\ UNCHANGED dailyPlans
     ELSE IF dailyPlan = Undefined
     THEN Reply(UD, 404, "Daily plan not found", sid, rq, {}) /\ UNCHANGED dailyPlans
     ELSE IF getWeeklyPlan(dailyPlan.weeklyPlanId) = Undefined
     THEN Reply(UD, 404, "Weekly plan not found", sid, rq, {}) /\ UNCHANGED dailyPlans
     ELSE IF notOwnerNorAdmin(getWeeklyPlan(dailyPlan.weeklyPlanId), reqUser(sid))
     THEN Reply(UD, 403, "Forbidden", sid, rq, {}) /\ UNCHANGED dailyPlans
     ELSE IF ~ValidPartialDailyPlan(body)
     THEN Reply(UD, 400, "Invalid", sid, rq, {}) /\ UNCHANGED dailyPlans
     ELSE IF /\ "dayOfWeek" \in DOMAIN body
             /\ body.dayOfWeek # dailyPlan.dayOfWeek
             /\ duplicateDay(listDailyPlansForWeeklyPlan(dailyPlan.weeklyPlanId),
                             id, body.dayOfWeek)
     THEN Reply(UD, 400, "A plan for this day already exists", sid, rq, {})
          /\ UNCHANGED dailyPlans
     ELSE /\ dailyPlans' = updateDailyPlan(id, body)
          /\ Reply(UD, 200, "", sid, rq, {dailyPlans'[id].weeklyPlanId})
  /\ UNCHANGED <<users, grades, subjects, teacherGrades, teacherSubjects,
                 planningWeeks, weeklyPlans, nextId, now, pg, call, sessions, reqs>>

(***************************************************************************)
(* Admin routes: deletions, assignments, the week toggle.  MemStorage's    *)
(* delete methods are a single Map.delete.                                 *)
(***************************************************************************)
deleteUser(id) == MapDelete(users, id)
deleteGrade(id) == MapDelete(grades, id)
deleteSubject(id) == MapDelete(subjects, id)
deletePlanningWeek(id) == MapDelete(planningWeeks, id)

DU == "DELETE /api/users/:id"

\* a test that never recognises the requester's own account
ownAccountNever(id, currentUser) == FALSE
\* id === req.user.id
ownAccount(id, currentUser) == id = currentUser.id

DeleteUserRoute(sid, id) ==
  /\ IF ~isAdmin(sid)
     THEN Reply(DU, 403, "Forbidden", sid, id, {}) /\ UNCHANGED users
     ELSE IF ownAccount(id, reqUser(sid))
     THEN Reply(DU, 400, "You cannot delete your own account", sid, id, {})
          /\ UNCHANGED users
     ELSE IF id \in DOMAIN users
     THEN users' = deleteUser(id) /\ Reply(DU, 200, "User deleted successfully", sid, id, {})
     ELSE Reply(DU, 404, "User not found", sid, id, {}) /\ UNCHANGED users
  /\ UNCHANGED <<grades, subjects, teacherGrades, teacherSubjects, planningWeeks,
                 weeklyPlans, dailyPlans, nextId, now, pg, call, sessions, reqs>>

DG == "DELETE /api/grades/:id"

DeleteGradeRoute(sid, id) ==
  /\ IF ~isAdmin(sid)
     THEN Reply(DG, 403, "Forbidden", sid, id, {}) /\ UNCHANGED grades
     ELSE IF id \in DOMAIN grades
     THEN grades' = deleteGrade(id) /\ Reply(DG, 200, "Grade deleted successfully", sid, id, {})
     ELSE Reply(DG, 404, "Grade not found", sid, id, {}) /\ UNCHANGED grades
  /\ UNCHANGED <<users, subjects, teacherGrades, teacherSubjects, planningWeeks,
                 weeklyPlans, dailyPlans, nextId, now, pg, call, sessions, reqs>>

DS == "DELETE /api/subjects/:id"

DeleteSubjectRoute(sid, id) ==
  /\ IF ~isAdmin(sid)
     THEN Reply(DS, 403, "Forbidden", sid, id, {}) /\ UNCHANGED subjects
     ELSE IF id \in DOMAIN subjects
     THEN subjects' = deleteSubject(id)
          /\ Reply(DS, 200, "Subject deleted successfully", sid, id, {})
     ELSE Reply(DS, 404, "Subject not found", sid, id, {}) /\ UNCHANGED subjects
  /\ UNCHANGED <<users, grades, teacherGrades, teacherSubjects, planningWeeks,
                 weeklyPlans, dailyPlans, nextId, now, pg, call, sessions, reqs>>

DW == "DELETE /api/planning-weeks/:id"

DeletePlanningWeekRoute(sid, id) ==
  /\ IF ~isAdmin(sid)
     THEN Reply(DW, 403, "Forbidden", sid, id, {}) /\ UNCHANGED planningWeeks
     ELSE IF id \in DOMAIN planningWeeks
     THEN planningWeeks' = deletePlanningWeek(id)
          /\ Reply(DW, 200, "Planning week deleted successfully", sid, id, {})
     ELSE Reply(DW, 404, "Planning week not found", sid, id, {})
          /\ UNCHANGED planningWeeks
  /\ UNCHANGED <<users, grades, subjects, teacherGrades, teacherSubjects,
                 weeklyPlans, dailyPlans, nextId, now, pg, call, sessions, reqs>>

TW == "PUT /api/planning-weeks/:id/toggle"

togglePlanningWeekActive(id) ==
  MapSet(planningWeeks, id,
         Spread(planningWeeks[id], [isActive |-> ~planningWeeks[id].isActive]))

ToggleWeekRoute(sid, id) ==
  /\ IF ~isAdmin(sid)
     THEN Reply(TW, 403, "Forbidden", sid, id, {}) /\ UNCHANGED planningWeeks
     ELSE IF getPlanningWeek(id) # Undefined
     THEN planningWeeks' = togglePlanningWeekActive(id) /\ Reply(TW, 200, "", sid, id, {})
     ELSE Reply(TW, 404, "Planning week not found", sid, id, {})
          /\ UNCHANGED planningWeeks
  /\ UNCHANGED <<users, grades, subjects, teacherGrades, teacherSubjects,
                 weeklyPlans, dailyPlans, nextId, now, pg, call, sessions, reqs>>

AS == "POST /api/teacher-subjects"

\* the rows of teacherSubjects that match the assignment
matchingTeacherSubjects(teacherId, gradeId, subjectId) ==
  {k \in DOMAIN teacherSubjects :
     /\ teacherSubjects[k].teacherId = teacherId
     /\ teacherSubjects[k].gradeId = gradeId
     /\ teacherSubjects[k].subjectId = subjectId}

\* an insert without the search for an existing row
assignTeacherToSubjectAlways(assignment) ==
  MapSet(teacherSubjects, nextId.teacherSubjectId,
         Spread(assignment, [id |-> nextId.teacherSubjectId]))
\* returns the existing row, or inserts a new one
assignTeacherToSubject(assignment) ==
  IF matchingTeacherSubjects(assignment.teacherId, assignment.gradeId,
                             assignment.subjectId) # {}
  THEN teacherSubjects
  ELSE MapSet(teacherSubjects, nextId.teacherSubjectId,
              Spread(assignment, [id |-> nextId.teacherSubjectId]))

\* insertTeacherSubjectSchema: the three ids are required
ValidTeacherSubject(assignmentData) ==
  {"teacherId", "gradeId", "subjectId"} \subseteq DOMAIN assignmentData

AssignTeacherSubjectRoute(sid, assignment) ==
  /\ IF ~isAdmin(sid)
     THEN Reply(AS, 403, "Forbidden", sid, assignment, {})
          /\ UNCHANGED <<teacherSubjects, nextId>>
     ELSE IF ~ValidTeacherSubject(assignment)
     THEN Reply(AS, 400, "Required", sid, assignment, {})
          /\ UNCHANGED <<teacherSubjects, nextId>>
     ELSE /\ teacherSubjects' = assignTeacherToSubject(assignment)
          /\ IF teacherSubjects' = teacherSubjects
             THEN UNCHANGED nextId
             ELSE /\ nextId.teacherSubjectId <= MaxTeacherSubjects
                  /\ nextId' = [nextId EXCEPT !.teacherSubjectId = @ + 1]
          /\ Reply(AS, 201, "", sid, assignment, {})
  /\ UNCHANGED <<users, grades, subjects, teacherGrades, planningWeeks,
                 weeklyPlans, dailyPlans, now, pg, call, sessions, reqs>>

RS == "DELETE /api/teacher-subjects/:teacherId/:gradeId/:subjectId"

\* deletes the first matching row in insertion order
removeTeacherFromSubject(teacherId, gradeId, subjectId) ==
  LET hits == matchingTeacherSubjects(teacherId, gradeId, subjectId)
  IN  IF hits = {} THEN teacherSubjects
      ELSE MapDelete(teacherSubjects, CHOOSE k \in hits : \A j \in hits : k <= j)

RemoveTeacherSubjectRoute(sid, a) ==
  /\ IF ~isAdmin(sid)
     THEN Reply(RS, 403, "Forbidden", sid, a, {}) /\ UNCHANGED teacherSubjects
     ELSE IF matchingTeacherSubjects(a.teacherId, a.gradeId, a.subjectId) # {}
     THEN /\ teacherSubjects' = removeTeacherFromSubject(a.teacherId, a.gradeId, a.subjectId)
          /\ Reply(RS, 200, "Teacher removed from subject successfully", sid, a, {})
     ELSE Reply(RS, 404, "Assignment not found", sid, a, {})
          /\ UNCHANGED teacherSubjects
  /\ UNCHANGED <<users, grades, subjects, teacherGrades, planningWeeks,
                 weeklyPlans, dailyPlans, nextId, now, pg, call, sessions, reqs>>

(***************************************************************************)
(* Read routes of weekly and daily plans.  They change no table.           *)
(***************************************************************************)
getGrade(id) == IF id \in DOMAIN grades THEN grades[id] ELSE Undefined

\* undefined when the plan or one of its four joined rows is missing, else
\* { ...plan, teacher, grade, subject, week, dailyPlans }
getWeeklyPlanComplete(id) ==
  LET plan == getWeeklyPlan(id) IN
  IF plan = Undefined THEN Undefined
  ELSE IF \/ getUser(plan.teacherId) = Undefined
          \/ getGrade(plan.gradeId) = Undefined
          \/ getSubject(plan.subjectId) = Undefined
          \/ getPlanningWeek(plan.weekId) = Undefined
       THEN Undefined
       ELSE Spread(plan, [teacher |-> getUser(plan.teacherId),
                          grade |-> getGrade(plan.gradeId),
                          subject |-> getSubject(plan.subjectId),
                          week |-> getPlanningWeek(plan.weekId),
                          dailyPlans |-> listDailyPlansForWeeklyPlan(plan.id)])

ReadOnly(route, status, message, sid, rq, data) ==
  /\ Reply(route, status, message, sid, rq, data)
  /\ UNCHANGED <<tables, now, pg, call, sessions, reqs>>

ReadOnlyJson(route, sid, rq, data, json) ==
  /\ ReplyJson(route, 200, sid, rq, data, json)
  /\ UNCHANGED <<tables, now, pg, call, sessions, reqs>>

GT == "GET /api/weekly-plans/teacher/:teacherId"

GetTeacherPlans(sid, teacherId) ==
  IF ~isAuthenticated(sid) THEN ReadOnly(GT, 401, "Unauthorized", sid, teacherId, {})
  ELSE IF teacherId # reqUser(sid).id /\ ~reqUser(sid).isAdmin
  THEN ReadOnly(GT, 403, "Forbidden", sid, teacherId, {})
  ELSE ReadOnly(GT, 200, "", sid, teacherId,
                {plan.id : plan \in listTeacherWeeklyPlans(teacherId)})

GG == "GET /api/weekly-plans/grade/:gradeId/week/:weekId"

GetGradeWeekPlans(sid, gradeId, weekId) ==
  IF ~isAuthenticated(sid)
  THEN ReadOnly(GG, 401, "Unauthorized", sid, <<gradeId, weekId>>, {})
  ELSE ReadOnly(GG, 200, "", sid, <<gradeId, weekId>>,
                {plan.id : plan \in listGradeWeekPlans(gradeId, weekId)})

GP == "GET /api/weekly-plans/:id"

GetWeeklyPlan(sid, id) ==
  IF ~isAuthenticated(sid) THEN ReadOnly(GP, 401, "Unauthorized", sid, id, {})
  ELSE IF getWeeklyPlan(id) = Undefined
  THEN ReadOnly(GP, 404, "Weekly plan not found", sid, id, {})
  ELSE IF notOwnerNorAdmin(getWeeklyPlan(id), reqUser(sid))
  THEN ReadOnly(GP, 403, "Forbidden", sid, id, {})
  ELSE ReadOnly(GP, 200, "", sid, id, {id})

GC == "GET /api/weekly-plans/:id/complete"

GetWeeklyPlanComplete(sid, id) ==
  IF ~isAuthenticated(sid) THEN ReadOnly(GC, 401, "Unauthorized", sid, id, {})
  ELSE IF getWeeklyPlanComplete(id) = Undefined
  THEN ReadOnly(GC, 404, "Weekly plan not found", sid, id, {})
  ELSE IF notOwnerNorAdmin(getWeeklyPlanComplete(id), reqUser(sid))
  THEN ReadOnly(GC, 403, "Forbidden", sid, id, {})
  ELSE ReadOnlyJson(GC, sid, id, {id}, getWeeklyPlanComplete(id))

GD == "GET /api/daily-plans/weekly/:weeklyPlanId"

GetDailyPlans(sid, weeklyPlanId) ==
  IF ~isAuthenticated(sid) THEN ReadOnly(GD, 401, "Unauthorized", sid, weeklyPlanId, {})
  ELSE IF getWeeklyPlan(weeklyPlanId) = Undefined
  THEN ReadOnly(GD, 404, "Weekly plan not found", sid, weeklyPlanId, {})
  ELSE IF notOwnerNorAdmin(getWeeklyPlan(weeklyPlanId), reqUser(sid))
  THEN ReadOnly(GD, 403, "Forbidden", sid, weeklyPlanId, {})
  ELSE ReadOnly(GD, 200, "", sid, weeklyPlanId,
                {p.weeklyPlanId : p \in listDailyPlansForWeeklyPlan(weeklyPlanId)})

EP == "GET /api/weekly-plans/:id/export-pdf"
EX == "GET /api/weekly-plans/:id/export-excel"

\* both export routes: the complete plan, no ownership check
exportPlan(route, sid, id) ==
  IF ~isAuthenticated(sid) THEN ReadOnly(route, 401, "Unauthorized", sid, id, {})
  ELSE IF getWeeklyPlanComplete(id) = Undefined
  THEN ReadOnly(route, 404, "Weekly plan not found", sid, id, {})
  ELSE ReadOnlyJson(route, sid, id, {id},
                    [message |-> "export data", plan |-> getWeeklyPlanComplete(id)])

ExportPdf(sid, id) == exportPlan(EP, sid, id)
ExportExcel(sid, id) == exportPlan(EX, sid, id)

(***************************************************************************)
(* Requests.  A step is one route called with an open session and inputs   *)
(* from the given sets.                                                    *)
(***************************************************************************)
WeeklyPlanBodies(gs, sjs, ws) ==
  { [teacherId |-> 1, gradeId |-> g, subjectId |-> sj, weekId |-> w] :
      g \in gs, sj \in sjs, w \in ws }

\* a body the schema rejects: weekId is missing
BadWeeklyPlanBody == [gradeId |-> 3, subjectId |-> 1]

Assignments(ts, gs, sjs) ==
  { [teacherId |-> t, gradeId |-> g, subjectId |-> sj] :
      t \in ts, g \in gs, sj \in sjs }

DailyPlanBodies(ws, ds) ==
  { [weeklyPlanId |-> w, dayOfWeek |-> d, topic |-> "t1"] : w \in ws, d \in ds }

PartialDailyPlanBodies(ws, ds, ids, topics) ==
  { [dayOfWeek |-> d] : d \in ds }
  \cup { [weeklyPlanId |-> w] : w \in ws }
  \cup { [id |-> i] : i \in ids }
  \cup { [topic |-> t] : t \in topics }

PlanIdIn == 1..MaxWeeklyPlans
DailyIdIn == 1..MaxDailyPlans

\* time passes
Tick ==
  /\ now < MaxTime
  /\ now' = now + 1
  /\ UNCHANGED <<tables, pg, call, sessions, reqs, resp, tick>>

\* no POST /api/weekly-plans handler is between two of its awaits
Quiet == \A s \in Slots : reqs[s].pc = "idle"

LoginStep == \E c \in LoginIn : Login(c[1], c[2])

WPStartStep(slots, bodies) ==
  \E s \in slots, sid \in sessions, body \in bodies : WPStart(s, sid, body)

WPRunStep ==
  \/ \E s \in Slots : WPCheckWeek(s)
  \/ \E s \in Slots : WPCheckDup(s)
  \/ \E s \in Slots : WPInsert(s)

AssignStep(as) == \E sid \in sessions, a \in as : AssignTeacherSubjectRoute(sid, a)
RemoveStep(as) == \E sid \in sessions, a \in as : RemoveTeacherSubjectRoute(sid, a)
ToggleStep(ws) == \E sid \in sessions, id \in ws : ToggleWeekRoute(sid, id)
DeleteWeekStep(ws) == \E sid \in sessions, id \in ws : DeletePlanningWeekRoute(sid, id)
DeleteUserStep(us) == \E sid \in sessions, id \in us : DeleteUserRoute(sid, id)
DeleteGradeStep(gs) == \E sid \in sessions, id \in gs : DeleteGradeRoute(sid, id)
DeleteSubjectStep(sjs) == \E sid \in sessions, id \in sjs : DeleteSubjectRoute(sid, id)
PostDailyStep(bodies) == \E sid \in sessions, body \in bodies : PostDailyPlan(sid, body)
PutDailyStep(ids, bodies) ==
  \E sid \in sessions, id \in ids, body \in bodies : PutDailyPlan(sid, id, body)
NotesStep(ids, ns) ==
  \E sid \in sessions, id \in ids, notes \in ns : PutNotes(sid, id, notes)

ReadStep(us, gs, ws, ids) ==
  \/ \E sid \in sessions, t \in us : GetTeacherPlans(sid, t)
  \/ \E sid \in sessions, g \in gs, w \in ws : GetGradeWeekPlans(sid, g, w)
  \/ \E sid \in sessions, id \in ids : GetWeeklyPlan(sid, id)
  \/ \E sid \in sessions, id \in ids : GetWeeklyPlanComplete(sid, id)
  \/ \E sid \in sessions, id \in ids : GetDailyPlans(sid, id)
  \/ \E sid \in sessions, id \in ids : ExportPdf(sid, id)
  \/ \E sid \in sessions, id \in ids : ExportExcel(sid, id)

(***************************************************************************)
(* Specifications.                                                         *)
(***************************************************************************)
\* every handler, POST /api/weekly-plans interleaving with all of them
Next ==
  \/ Tick
  \/ LoginStep
  \/ WPStartStep(Slots, WeeklyPlanBodies({3}, {1, 4}, {1, 2}) \cup {BadWeeklyPlanBody})
  \/ WPRunStep
  \/ AssignStep(Assignments({1, 2}, {3}, {1, 4}))
  \/ RemoveStep(Assignments({1, 2}, {3}, {1, 4}))
  \/ ToggleStep({1, 2})
  \/ DeleteWeekStep({1, 2})
  \/ DeleteUserStep({1, 2})
  \/ DeleteGradeStep({3})
  \/ DeleteSubjectStep({1, 4})
  \/ PostDailyStep(DailyPlanBodies(PlanIdIn, {1, 2, 6}))
  \/ PutDailyStep(DailyIdIn, PartialDailyPlanBodies(PlanIdIn, {1, 2, 6}, DailyIdIn, {"t2"}))
  \/ NotesStep(PlanIdIn, {"n1"})
  \/ ReadStep({1, 2}, {3}, {1, 2}, PlanIdIn)

Spec == Init /\ [][Next]_vars

\* two POST /api/weekly-plans handlers in flight
NextRace ==
  \/ LoginStep
  \/ AssignStep(Assignments({2}, {3}, {1}))
  \/ WPStartStep(Slots, WeeklyPlanBodies({3}, {1, 4}, {1, 2}) \cup {BadWeeklyPlanBody})
  \/ WPRunStep

SpecRace == Init /\ [][NextRace]_vars

\* plan creation with the admin's changes to assignments, weeks and subjects,
\* requests handled one at a time
NextWeekly ==
  \/ Quiet /\ LoginStep
  \/ Quiet /\ WPStartStep({1}, WeeklyPlanBodies({3}, {1, 4}, {1}) \cup {BadWeeklyPlanBody})
  \/ WPRunStep
  \/ Quiet /\ AssignStep(Assignments({2}, {3}, {1, 4}))
  \/ Quiet /\ RemoveStep(Assignments({2}, {3}, {1, 4}))
  \/ Quiet /\ ToggleStep({1})
  \/ Quiet /\ DeleteWeekStep({1})
  \/ Quiet /\ DeleteSubjectStep({1})

SpecWeekly == Init /\ [][NextWeekly]_vars

\* weekly plans and their daily plans, requests handled one at a time
NextDaily ==
  \/ Quiet /\ LoginStep
  \/ Quiet /\ WPStartStep({1}, WeeklyPlanBodies({3}, {1}, {1}))
  \/ WPRunStep
  \/ Quiet /\ AssignStep(Assignments({1, 2}, {3}, {1}))
  \/ Quiet /\ PostDailyStep(DailyPlanBodies(PlanIdIn, {1, 2, 6}))
  \/ Quiet /\ PutDailyStep(DailyIdIn, PartialDailyPlanBodies(PlanIdIn, {1, 2}, DailyIdIn, {}))
  \/ Quiet /\ NotesStep({1}, {"n1"})

SpecDaily == Init /\ [][NextDaily]_vars

\* plans and the deletions, requests handled one at a time
NextDelete ==
  \/ Quiet /\ LoginStep
  \/ Quiet /\ WPStartStep({1}, WeeklyPlanBodies({3}, {1}, {1}))
  \/ WPRunStep
  \/ Quiet /\ AssignStep(Assignments({2}, {3}, {1}))
  \/ Quiet /\ PostDailyStep(DailyPlanBodies(PlanIdIn, {1}))
  \/ Quiet /\ DeleteUserStep({1, 2})
  \/ Quiet /\ DeleteGradeStep({3})
  \/ Quiet /\ DeleteSubjectStep({1})
  \/ Quiet /\ DeleteWeekStep({1})

SpecDelete == Init /\ [][NextDelete]_vars

\* plans and the routes that read them, requests handled one at a time
NextRead ==
  \/ Quiet /\ LoginStep
  \/ Quiet /\ WPStartStep({1}, WeeklyPlanBodies({3}, {1}, {1}))
  \/ WPRunStep
  \/ Quiet /\ AssignStep(Assignments({1, 2}, {3}, {1}))
  \/ Quiet /\ PostDailyStep(DailyPlanBodies(PlanIdIn, {1}))
  \/ Quiet /\ ReadStep({1, 2}, {3}, {1}, PlanIdIn)

SpecRead == Init /\ [][NextRead]_vars

(***************************************************************************)
(* Properties.                                                             *)
(***************************************************************************)
\* this step sends a response
Answered == tick' # tick

NotAssignedMsg == "You are not assigned to teach this subject in this grade"
NotActiveMsg == "The selected planning week is not active"
PlanExistsMsg == "A plan for this subject in this week already exists"

SameKey(a, b) ==
  /\ a.teacherId = b.teacherId /\ a.subjectId = b.subjectId
  /\ a.gradeId = b.gradeId /\ a.weekId = b.weekId

\* C1: the store holds at most one WeeklyPlan per (teacherId, subjectId,
\* gradeId, weekId), also when two POST /api/weekly-plans handlers interleave
\* between the duplicate check and the insert.
C1_UniqueWeeklyPlan ==
  \A a, b \in DOMAIN weeklyPlans :
     SameKey(weeklyPlans[a], weeklyPlans[b]) => a = b

\* this step answers a POST /api/weekly-plans of an authenticated user whose
\* body the schema accepts
WPAnswered ==
  /\ Answered
  /\ resp'.route = WP
  /\ isAuthenticated(resp'.by)
  /\ ValidWeeklyPlan(Spread(resp'.body, [teacherId |-> resp'.by]))

ExistingPlan(by, body) ==
  \E p \in MapValues(weeklyPlans) :
     SameKey(p, Spread(body, [teacherId |-> by]))

\* a TeacherSubject row (by, gradeId, subjectId) exists
HasTeacherSubject(by, body) ==
  matchingTeacherSubjects(by, body.gradeId, body.subjectId) # {}

ActiveWeek(body) ==
  body.weekId \in DOMAIN planningWeeks /\ planningWeeks[body.weekId].isActive

\* exactly one row is added to weeklyPlans, with the request's key
OneRowAdded(by, body) ==
  /\ DOMAIN weeklyPlans \subseteq DOMAIN weeklyPlans'
  /\ Cardinality(DOMAIN weeklyPlans') = Cardinality(DOMAIN weeklyPlans) + 1
  /\ \A k \in DOMAIN weeklyPlans : weeklyPlans'[k] = weeklyPlans[k]
  /\ \A k \in (DOMAIN weeklyPlans') \ DOMAIN weeklyPlans :
        SameKey(weeklyPlans'[k], Spread(body, [teacherId |-> by]))

\* C2 as stated: when a WeeklyPlan with the key exists, a further POST by that
\* teacher for the same key is answered 400 (plan already exists) and the plans
\* are unchanged; the first POST by an assigned teacher for an active week is
\* answered 201 and adds exactly one row.
C2_AsStated ==
  [][ WPAnswered =>
        /\ ExistingPlan(resp'.by, resp'.body) =>
              /\ resp'.status = 400 /\ resp'.message = PlanExistsMsg
              /\ weeklyPlans' = weeklyPlans
        /\ ( /\ ~ExistingPlan(resp'.by, resp'.body)
             /\ HasTeacherSubject(resp'.by, resp'.body)
             /\ resp'.body.subjectId \in DOMAIN subjects
             /\ ActiveWeek(resp'.body) ) =>
              /\ resp'.status = 201
              /\ OneRowAdded(resp'.by, resp'.body) ]_vars

\* C2 amended: a further POST for an existing key is always rejected and adds
\* nothing; it is answered 400 (plan already exists) when the teacher is still
\* assigned to the (existing) subject and the week is still active, and
\* otherwise 403 (not assigned) or 400 (week not active).  The first POST by an
\* assigned teacher for an active week is answered 201 and adds one row.
C2_DuplicateRejected ==
  [][ WPAnswered =>
        /\ ExistingPlan(resp'.by, resp'.body) =>
              /\ weeklyPlans' = weeklyPlans
              /\ \/ resp'.status = 400 /\ resp'.message = PlanExistsMsg
                 \/ resp'.status = 403 /\ resp'.message = NotAssignedMsg
                 \/ resp'.status = 400 /\ resp'.message = NotActiveMsg
        /\ ( /\ ExistingPlan(resp'.by, resp'.body)
             /\ HasTeacherSubject(resp'.by, resp'.body)
             /\ resp'.body.subjectId \in DOMAIN subjects
             /\ ActiveWeek(resp'.body) ) =>
              resp'.status = 400 /\ resp'.message = PlanExistsMsg
        /\ ( /\ ~ExistingPlan(resp'.by, resp'.body)
             /\ HasTeacherSubject(resp'.by, resp'.body)
             /\ resp'.body.subjectId \in DOMAIN subjects
             /\ ActiveWeek(resp'.body) ) =>
              /\ resp'.status = 201
              /\ OneRowAdded(resp'.by, resp'.body) ]_vars

\* a second POST for an existing key has just been answered "already exists"
C2_Witness ==
  /\ resp.route = WP /\ resp.status = 400 /\ resp.message = PlanExistsMsg
  /\ ExistingPlan(resp.by, resp.body)
  /\ Cardinality(DOMAIN weeklyPlans) = 1

C10_UnassignedRejected ==
  [][ ( /\ WPAnswered
        /\ ActiveWeek(resp'.body)
        /\ ~HasTeacherSubject(resp'.by, resp'.body) ) =>
        /\ resp'.status = 403 /\ resp'.message = NotAssignedMsg
        /\ weeklyPlans' = weeklyPlans ]_vars

\* an unassigned admin's POST for an active week was just refused
C10_Witness ==
  /\ resp.route = WP /\ resp.status = 403 /\ resp.message = NotAssignedMsg
  /\ isAdmin(resp.by)
  /\ "weekId" \in DOMAIN resp.body
  /\ ActiveWeek(resp.body)
  /\ ~HasTeacherSubject(resp.by, resp.body)
  /\ weeklyPlans # EmptyMap

SameDay(a, b) == a.weeklyPlanId = b.weeklyPlanId /\ a.dayOfWeek = b.dayOfWeek

\* C3: in every state reachable by POST /api/daily-plans and
\* PUT /api/daily-plans/:id requests with bodies the schemas accept, no two
\* DailyPlans share the same (weeklyPlanId, dayOfWeek).
C3_UniqueDailyPlan ==
  \A a, b \in DOMAIN dailyPlans :
     SameDay(dailyPlans[a], dailyPlans[b]) => a = b

\* the requester may write the daily plans of this weekly plan
MayWrite(by, weeklyPlanId) ==
  /\ isAuthenticated(by)
  /\ getWeeklyPlan(weeklyPlanId) # Undefined
  /\ ~notOwnerNorAdmin(getWeeklyPlan(weeklyPlanId), reqUser(by))

\* another DailyPlan of the same WeeklyPlan already uses the day
SiblingHasDay(id, dayOfWeek) ==
  \E k \in DOMAIN dailyPlans :
     /\ k # id
     /\ dailyPlans[k].weeklyPlanId = dailyPlans[id].weeklyPlanId
     /\ dailyPlans[k].dayOfWeek = dayOfWeek

\* C4: a POST /api/daily-plans whose dayOfWeek is that of an existing DailyPlan
\* of the same weeklyPlanId, and a PUT /api/daily-plans/:id that changes
\* dayOfWeek to the day of a sibling DailyPlan, are answered 400 and leave the
\* DailyPlan rows unchanged (requests of the plan's owner or an admin).
C4_DuplicateDayRejected ==
  [][ Answered =>
        /\ ( /\ resp'.route = PD
             /\ ValidDailyPlan(resp'.body)
             /\ MayWrite(resp'.by, resp'.body.weeklyPlanId)
             /\ \E k \in DOMAIN dailyPlans : SameDay(dailyPlans[k], resp'.body) ) =>
              resp'.status = 400 /\ dailyPlans' = dailyPlans
        /\ ( /\ resp'.route = UD
             /\ resp'.body.id \in DOMAIN dailyPlans
             /\ MayWrite(resp'.by, dailyPlans[resp'.body.id].weeklyPlanId)
             /\ "dayOfWeek" \in DOMAIN resp'.body.body
             /\ resp'.body.body.dayOfWeek # dailyPlans[resp'.body.id].dayOfWeek
             /\ SiblingHasDay(resp'.body.id, resp'.body.body.dayOfWeek) ) =>
              resp'.status = 400 /\ dailyPlans' = dailyPlans ]_vars

\* rows of the four tables that point at a grade, a subject or a week
GradeRefs(id, tg, ts, wp) ==
  {r \in MapValues(tg) \cup MapValues(ts) \cup MapValues(wp) : r.gradeId = id}
SubjectRefs(id, ts, wp) ==
  {r \in MapValues(ts) \cup MapValues(wp) : r.subjectId = id}
WeekRefs(id, wp) == {r \in MapValues(wp) : r.weekId = id}

\* daily plans left in dp whose weekly plan, before the step, is in plans
DailyLeft(plans, dp) ==
  {d \in MapValues(dp) : \E pl \in plans : d.weeklyPlanId = pl.id}

\* C5: after deleteGrade, deleteSubject or deletePlanningWeek has returned
\* true, no TeacherGrade, TeacherSubject or WeeklyPlan row references the
\* deleted id and no DailyPlan remains whose WeeklyPlan referenced it.
C5_DeleteCascades ==
  [][ (Answered /\ resp'.status = 200) =>
        /\ resp'.route = DG =>
              /\ GradeRefs(resp'.body, teacherGrades', teacherSubjects', weeklyPlans') = {}
              /\ DailyLeft(GradeRefs(resp'.body, EmptyMap, EmptyMap, weeklyPlans),
                           dailyPlans') = {}
        /\ resp'.route = DS =>
              /\ SubjectRefs(resp'.body, teacherSubjects', weeklyPlans') = {}
              /\ DailyLeft(SubjectRefs(resp'.body, EmptyMap, weeklyPlans),
                           dailyPlans') = {}
        /\ resp'.route = DW =>
              /\ WeekRefs(resp'.body, weeklyPlans') = {}
              /\ DailyLeft(WeekRefs(resp'.body, weeklyPlans), dailyPlans') = {}
     ]_vars

TeacherRefs(id, tg, ts, wp) ==
  {r \in MapValues(tg) \cup MapValues(ts) \cup MapValues(wp) : r.teacherId = id}

\* C6: after an admin's DELETE /api/users/:id has succeeded for user U, no
\* TeacherGrade or TeacherSubject of U, no WeeklyPlan authored by U and no
\* DailyPlan of such a WeeklyPlan remains.
C6_DeleteUserCascades ==
  [][ (Answered /\ resp'.route = DU /\ resp'.status = 200) =>
        /\ TeacherRefs(resp'.body, teacherGrades', teacherSubjects', weeklyPlans') = {}
        /\ DailyLeft(TeacherRefs(resp'.body, EmptyMap, EmptyMap, weeklyPlans),
                     dailyPlans') = {}
     ]_vars

\* the DailyPlans of a WeeklyPlan
DailyOf(weeklyPlanId, dp) == {d \in MapValues(dp) : d.weeklyPlanId = weeklyPlanId}

\* C7: no request of a non-admin user U changes a WeeklyPlan whose teacherId
\* is not U: the plan row (its notes) and the set and contents of its
\* DailyPlans are the same before and after the request, on every route.
C7_ForeignPlanUntouched ==
  [][ ( /\ Answered
        /\ isAuthenticated(resp'.by)
        /\ ~reqUser(resp'.by).isAdmin ) =>
        \A id \in DOMAIN weeklyPlans :
           weeklyPlans[id].teacherId # resp'.by =>
              /\ id \in DOMAIN weeklyPlans'
              /\ weeklyPlans'[id] = weeklyPlans[id]
              /\ DailyOf(id, dailyPlans') = DailyOf(id, dailyPlans) ]_vars

\* routes that answer with one WeeklyPlan, its complete view or its DailyPlans
PlanRoutes == {GP, GC, GD, EP, EX}
\* routes that answer with a list of WeeklyPlans
ListRoutes == {GT, GG}

\* C8: on every route that returns a WeeklyPlan, its complete view or its
\* DailyPlans, a non-admin who is not the plan's teacher is answered 403 and
\* gets no data of the plan, and an admin's request succeeds.
C8_ForeignPlanUnreadable ==
  [][ ( /\ Answered
        /\ resp'.route \in PlanRoutes \cup ListRoutes
        /\ isAuthenticated(resp'.by) ) =>
        IF reqUser(resp'.by).isAdmin
        THEN resp'.route \in PlanRoutes /\ getWeeklyPlanComplete(resp'.body) # Undefined
                => resp'.status = 200
        ELSE /\ \A id \in resp'.data : weeklyPlans[id].teacherId = resp'.by
             /\ ( /\ resp'.route \in PlanRoutes
                  /\ getWeeklyPlan(resp'.body) # Undefined
                  /\ getWeeklyPlan(resp'.body).teacherId # resp'.by )
                => resp'.status = 403 ]_vars

(***************************************************************************)
(* User management: POST /api/logout, POST /api/register,                  *)
(* PATCH /api/users/:id/role, PATCH /api/users/:id.                        *)
(***************************************************************************)
MaxUsers == 4            \* user ids handed out (two are seeded)

\* the length of the strings the requests carry
StringLength(str) ==
  CASE str = "" -> 0
    [] str = "al" -> 2
    [] str = "pw" -> 2
    [] str = "alice" -> 5
    [] str = "bob12" -> 5
    [] str = "teacher" -> 7
    [] str = "secret1" -> 7
    [] str = "Alice A" -> 7
    [] str = "Grade 4" -> 7
    [] str = "Grade 1" -> 7
    [] str = "Science" -> 7
    [] str = "Music" -> 5

\* the length of a password without ':'
LitLength(password) == StringLength(password[1][2])

createUser(insertUser) ==
  MapSet(users, nextId.userId, Spread(insertUser, [id |-> nextId.userId]))

updateUser(id, userData) == MapSet(users, id, Spread(users[id], userData))

LO == "POST /api/logout"

\* no middleware: req.logout ends the session, if there is one
Logout(sid) ==
  /\ sessions' = sessions \ {sid}
  /\ Reply(LO, 200, "Logged out successfully", sid, <<>>, {})
  /\ UNCHANGED <<tables, now, pg, call, reqs>>

RG == "POST /api/register"

\* insertUserSchema: username (min 3), password (min 6), fullName (min 1)
ValidUser(userData) ==
  /\ {"username", "password", "fullName"} \subseteq DOMAIN userData
  /\ StringLength(userData.username) >= 3
  /\ LitLength(userData.password) >= 6
  /\ StringLength(userData.fullName) >= 1

Register(sid, body) ==
  LET userData == Spread([isAdmin |-> FALSE], body) IN
  /\ IF ~isAdmin(sid)
     THEN Reply(RG, 403, "Forbidden", sid, body, {}) /\ UNCHANGED <<users, nextId>>
     ELSE IF ~ValidUser(userData)
     THEN Reply(RG, 400, "Invalid", sid, body, {}) /\ UNCHANGED <<users, nextId>>
     ELSE IF getUserByUsername(userData.username) # Undefined
     THEN Reply(RG, 400, "Username already exists", sid, body, {})
          /\ UNCHANGED <<users, nextId>>
     ELSE /\ nextId.userId <= MaxUsers
          /\ users' = createUser(userData)
          /\ nextId' = [nextId EXCEPT !.userId = @ + 1]
          /\ ReplyJson(RG, 201, sid, body, {}, publicUser(users'[nextId.userId]))
  /\ UNCHANGED <<grades, subjects, teacherGrades, teacherSubjects, planningWeeks,
                 weeklyPlans, dailyPlans, now, pg, call, sessions, reqs>>

PR == "PATCH /api/users/:id/role"

\* a test that never finds the requester
ownAdminStatusNever(userId, currentUser) == FALSE

\* userId === req.user.id
ownAdminStatus(userId, currentUser) == userId = currentUser.id

PatchRole(sid, id, body) ==
  LET rq == [id |-> id, body |-> body] IN
  /\ IF ~isAdmin(sid)
     THEN Reply(PR, 403, "Forbidden", sid, rq, {}) /\ UNCHANGED users
     ELSE IF "isAdmin" \notin DOMAIN body
     THEN Reply(PR, 400, "Required", sid, rq, {}) /\ UNCHANGED users
     ELSE IF ownAdminStatus(id, reqUser(sid))
     THEN Reply(PR, 400, "You cannot modify your own admin status", sid, rq, {})
          /\ UNCHANGED users
     ELSE IF getUser(id) # Undefined
     THEN users' = updateUser(id, [isAdmin |-> body.isAdmin])
          /\ ReplyJson(PR, 200, sid, rq, {}, publicUser(users'[id]))
     ELSE Reply(PR, 404, "User not found", sid, rq, {}) /\ UNCHANGED users
  /\ UNCHANGED <<grades, subjects, teacherGrades, teacherSubjects, planningWeeks,
                 weeklyPlans, dailyPlans, nextId, now, pg, call, sessions, reqs>>

PU == "PATCH /api/users/:id"

\* a test that lets every signed-in user through
notSelfNorAdminNever(id, currentUser) == FALSE
notSelfNorAdmin(id, currentUser) == id # currentUser.id /\ ~currentUser.isAdmin

PatchUser(sid, id, body) ==
  LET rq == [id |-> id, body |-> body] IN
  /\ IF ~isAuthenticated(sid)
     THEN Reply(PU, 401, "Unauthorized", sid, rq, {}) /\ UNCHANGED users
     ELSE IF notSelfNorAdmin(id, reqUser(sid))
     THEN Reply(PU, 403, "Forbidden", sid, rq, {}) /\ UNCHANGED users
     ELSE IF getUser(id) # Undefined
     THEN users' = updateUser(id, [fullName |-> body.fullName])
          /\ ReplyJson(PU, 200, sid, rq, {}, publicUser(users'[id]))
     ELSE Reply(PU, 404, "User not found", sid, rq, {}) /\ UNCHANGED users
  /\ UNCHANGED <<grades, subjects, teacherGrades, teacherSubjects, planningWeeks,
                 weeklyPlans, dailyPlans, nextId, now, pg, call, sessions, reqs>>

\* request bodies of the user routes
UserBodies ==
  { [username |-> "alice", password |-> Lit("secret1"), fullName |-> "Alice A"],
    [username |-> "teacher", password |-> Lit("secret1"), fullName |-> "Alice A"],
    [username |-> "al", password |-> Lit("secret1"), fullName |-> "Alice A"],
    [username |-> "alice", password |-> Lit("pw"), fullName |-> "Alice A"],
    [username |-> "alice", fullName |-> "Alice A"] }

RoleBodies == { [isAdmin |-> TRUE], [isAdmin |-> FALSE], << >> }

NameBodies == { [fullName |-> "Alice A"] }

UserIdIn == 1..MaxUsers

LogoutStep == \E sid \in sessions : Logout(sid)
RegisterStep(bodies) == \E sid \in sessions, body \in bodies : Register(sid, body)
PatchRoleStep(ids, bodies) ==
  \E sid \in sessions, id \in ids, body \in bodies : PatchRole(sid, id, body)
PatchUserStep(ids, bodies) ==
  \E sid \in sessions, id \in ids, body \in bodies : PatchUser(sid, id, body)

\* the user routes, requests handled one at a time
NextUsers ==
  \/ LoginStep
  \/ LogoutStep
  \/ RegisterStep(UserBodies)
  \/ PatchRoleStep(UserIdIn, RoleBodies)
  \/ PatchUserStep(UserIdIn, NameBodies)
  \/ DeleteUserStep(UserIdIn)

SpecUsers == Init /\ [][NextUsers]_vars

\* C11: DELETE /api/users/:id and PATCH /api/users/:id/role issued by an admin
\* whose own id is :id are answered 400 and leave the users table unchanged
\* (the requester still exists and is still an admin).
C11_SelfProtected ==
  [][ ( /\ Answered
        /\ isAdmin(resp'.by)
        /\ \/ resp'.route = DU /\ resp'.body = resp'.by
           \/ resp'.route = PR /\ resp'.body.id = resp'.by ) =>
        /\ resp'.status = 400
        /\ users' = users
        /\ resp'.by \in DOMAIN users' /\ users'[resp'.by].isAdmin ]_vars

\* a teacher who was made admin has just been refused a change of their own role
C11_Witness ==
  /\ resp.route = PR /\ resp.status = 400
  /\ resp.message = "You cannot modify your own admin status"
  /\ resp.by = 2 /\ resp.body.id = 2
  /\ isAdmin(2)

(***************************************************************************)
(* Admin routes that create and update grades, subjects, teacher-grade     *)
(* assignments and planning weeks.                                         *)
(***************************************************************************)
MaxGrades == 4           \* grade ids handed out (three are seeded)
MaxSubjects == 6         \* subject ids handed out (five are seeded)
MaxTeacherGrades == 2    \* teacher-grade ids handed out (one is seeded)
MaxPlanningWeeks == 3    \* planning-week ids handed out (two are seeded)

createGrade(grade) ==
  MapSet(grades, nextId.gradeId, Spread(grade, [id |-> nextId.gradeId]))

\* an update that stores the row whether or not the grade exists
updateGradeUpsert(id, grade) == MapSet(grades, id, Spread([id |-> id], grade))
updateGrade(id, grade) ==
  IF getGrade(id) = Undefined THEN grades
  ELSE MapSet(grades, id, Spread(grades[id], grade))

createSubject(subject) ==
  MapSet(subjects, nextId.subjectId, Spread(subject, [id |-> nextId.subjectId]))

updateSubject(id, subject) == MapSet(subjects, id, Spread(subjects[id], subject))

\* the rows of teacherGrades that match the assignment
matchingTeacherGrades(teacherId, gradeId) ==
  {k \in DOMAIN teacherGrades :
     teacherGrades[k].teacherId = teacherId /\ teacherGrades[k].gradeId = gradeId}

\* returns the existing row, or inserts a new one
assignTeacherToGrade(assignment) ==
  IF matchingTeacherGrades(assignment.teacherId, assignment.gradeId) # {}
  THEN teacherGrades
  ELSE MapSet(teacherGrades, nextId.teacherGradeId,
              Spread(assignment, [id |-> nextId.teacherGradeId]))

\* deletes the first matching row in insertion order
removeTeacherFromGrade(teacherId, gradeId) ==
  LET hits == matchingTeacherGrades(teacherId, gradeId)
  IN  IF hits = {} THEN teacherGrades
      ELSE MapDelete(teacherGrades, CHOOSE k \in hits : \A j \in hits : k <= j)

createPlanningWeek(week) ==
  MapSet(planningWeeks, nextId.planningWeekId,
         Spread(week, [id |-> nextId.planningWeekId]))

\* insertGradeSchema: name (min 1)
ValidGrade(gradeData) ==
  "name" \in DOMAIN gradeData /\ StringLength(gradeData.name) >= 1

\* insertSubjectSchema: name (min 1), type one of three
ValidSubject(subjectData) ==
  /\ "name" \in DOMAIN subjectData /\ StringLength(subjectData.name) >= 1
  /\ subjectData.type \in {"standard", "art", "pe"}

\* insertTeacherGradeSchema: teacherId and gradeId are required
ValidTeacherGrade(assignmentData) ==
  {"teacherId", "gradeId"} \subseteq DOMAIN assignmentData

\* insertPlanningWeekSchema: weekNumber 1..52, year 2000..2100, the two dates
ValidPlanningWeek(weekData) ==
  /\ {"weekNumber", "year", "startDate", "endDate"} \subseteq DOMAIN weekData
  /\ weekData.weekNumber >= 1 /\ weekData.weekNumber <= 52
  /\ weekData.year >= 2000 /\ weekData.year <= 2100

CG == "POST /api/grades"

CreateGradeRoute(sid, body) ==
  /\ IF ~isAdmin(sid)
     THEN Reply(CG, 403, "Forbidden", sid, body, {}) /\ UNCHANGED <<grades, nextId>>
     ELSE IF ~ValidGrade(body)
     THEN Reply(CG, 400, "Invalid", sid, body, {}) /\ UNCHANGED <<grades, nextId>>
     ELSE /\ nextId.gradeId <= MaxGrades
          /\ grades' = createGrade(body)
          /\ nextId' = [nextId EXCEPT !.gradeId = @ + 1]
          /\ Reply(CG, 201, "", sid, body, {})
  /\ UNCHANGED <<users, subjects, teacherGrades, teacherSubjects, planningWeeks,
                 weeklyPlans, dailyPlans, now, pg, call, sessions, reqs>>

UG == "PUT /api/grades/:id"

UpdateGradeRoute(sid, id, body) ==
  LET rq == [id |-> id, body |-> body] IN
  /\ IF ~isAdmin(sid)
     THEN Reply(UG, 403, "Forbidden", sid, rq, {}) /\ UNCHANGED grades
     ELSE IF ~ValidGrade(body)
     THEN Reply(UG, 400, "Invalid", sid, rq, {}) /\ UNCHANGED grades
     ELSE /\ grades' = updateGrade(id, body)
          /\ IF getGrade(id) # Undefined
             THEN Reply(UG, 200, "", sid, rq, {})
             ELSE Reply(UG, 404, "Grade not found", sid, rq, {})
  /\ UNCHANGED <<users, subjects, teacherGrades, teacherSubjects, planningWeeks,
                 weeklyPlans, dailyPlans, nextId, now, pg, call, sessions, reqs>>

CS == "POST /api/subjects"

CreateSubjectRoute(sid, body) ==
  LET subjectData == Spread([type |-> "standard"], body) IN
  /\ IF ~isAdmin(sid)
     THEN Reply(CS, 403, "Forbidden", sid, body, {}) /\ UNCHANGED <<subjects, nextId>>
     ELSE IF ~ValidSubject(subjectData)
     THEN Reply(CS, 400, "Invalid", sid, body, {}) /\ UNCHANGED <<subjects, nextId>>
     ELSE /\ nextId.subjectId <= MaxSubjects
          /\ subjects' = createSubject(subjectData)
          /\ nextId' = [nextId EXCEPT !.subjectId = @ + 1]
          /\ Reply(CS, 201, "", sid, body, {})
  /\ UNCHANGED <<users, grades, teacherGrades, teacherSubjects, planningWeeks,
                 weeklyPlans, dailyPlans, now, pg, call, sessions, reqs>>

US == "PUT /api/subjects/:id"

UpdateSubjectRoute(sid, id, body) ==
  LET rq == [id |-> id, body |-> body]
      subjectData == Spread([type |-> "standard"], body)
  IN
  /\ IF ~isAdmin(sid)
     THEN Reply(US, 403, "Forbidden", sid, rq, {}) /\ UNCHANGED subjects
     ELSE IF ~ValidSubject(subjectData)
     THEN Reply(US, 400, "Invalid", sid, rq, {}) /\ UNCHANGED subjects
     ELSE IF getSubject(id) # Undefined
     THEN subjects' = updateSubject(id, subjectData) /\ Reply(US, 200, "", sid, rq, {})
     ELSE Reply(US, 404, "Subject not found", sid, rq, {}) /\ UNCHANGED subjects
  /\ UNCHANGED <<users, grades, teacherGrades, teacherSubjects, planningWeeks,
                 weeklyPlans, dailyPlans, nextId, now, pg, call, sessions, reqs>>

AG == "POST /api/teacher-grades"

AssignTeacherGradeRoute(sid, body) ==
  /\ IF ~isAdmin(sid)
     THEN Reply(AG, 403, "Forbidden", sid, body, {})
          /\ UNCHANGED <<teacherGrades, nextId>>
     ELSE IF ~ValidTeacherGrade(body)
     THEN Reply(AG, 400, "Required", sid, body, {})
          /\ UNCHANGED <<teacherGrades, nextId>>
     ELSE /\ teacherGrades' = assignTeacherToGrade(body)
          /\ IF teacherGrades' = teacherGrades
             THEN UNCHANGED nextId
             ELSE /\ nextId.teacherGradeId <= MaxTeacherGrades
                  /\ nextId' = [nextId EXCEPT !.teacherGradeId = @ + 1]
          /\ Reply(AG, 201, "", sid, body, {})
  /\ UNCHANGED <<users, grades, subjects, teacherSubjects, planningWeeks,
                 weeklyPlans, dailyPlans, now, pg, call, sessions, reqs>>

RTG == "DELETE /api/teacher-grades/:teacherId/:gradeId"

RemoveTeacherGradeRoute(sid, a) ==
  /\ IF ~isAdmin(sid)
     THEN Reply(RTG, 403, "Forbidden", sid, a, {}) /\ UNCHANGED teacherGrades
     ELSE IF matchingTeacherGrades(a.teacherId, a.gradeId) # {}
     THEN /\ teacherGrades' = removeTeacherFromGrade(a.teacherId, a.gradeId)
          /\ Reply(RTG, 200, "Teacher removed from grade successfully", sid, a, {})
     ELSE Reply(RTG, 404, "Assignment not found", sid, a, {})
          /\ UNCHANGED teacherGrades
  /\ UNCHANGED <<users, grades, subjects, teacherSubjects, planningWeeks,
                 weeklyPlans, dailyPlans, nextId, now, pg, call, sessions, reqs>>

CW == "POST /api/planning-weeks"

CreatePlanningWeekRoute(sid, body) ==
  LET weekData == Spread([isActive |-> TRUE], body) IN
  /\ IF ~isAdmin(sid)
     THEN Reply(CW, 403, "Forbidden", sid, body, {})
          /\ UNCHANGED <<planningWeeks, nextId>>
     ELSE IF ~ValidPlanningWeek(weekData)
     THEN Reply(CW, 400, "Invalid", sid, body, {})
          /\ UNCHANGED <<planningWeeks, nextId>>
     ELSE /\ nextId.planningWeekId <= MaxPlanningWeeks
          /\ planningWeeks' = createPlanningWeek(weekData)
          /\ nextId' = [nextId EXCEPT !.planningWeekId = @ + 1]
          /\ Reply(CW, 201, "", sid, body, {})
  /\ UNCHANGED <<users, grades, subjects, teacherGrades, teacherSubjects,
                 weeklyPlans, dailyPlans, now, pg, call, sessions, reqs>>

GradeBodies == { [name |-> "Grade 4"], [name |-> ""] }

SubjectBodies == { [name |-> "Music", type |-> "art"], [name |-> "Music"], [name |-> ""] }

TeacherGrades(ts, gs) == { [teacherId |-> t, gradeId |-> g] : t \in ts, g \in gs }

\* weeks 17 of 2024: dates in order, dates reversed, and a week number and a
\* year out of range
PlanningWeekBodies ==
  { [weekNumber |-> 17, year |-> 2024, startDate |-> 20240129, endDate |-> 20240202],
    [weekNumber |-> 17, year |-> 2024, startDate |-> 20240202, endDate |-> 20240129],
    [weekNumber |-> 53, year |-> 2024, startDate |-> 20240129, endDate |-> 20240202],
    [weekNumber |-> 17, year |-> 1999, startDate |-> 20240129, endDate |-> 20240202] }

(***************************************************************************)
(* One request of a given requester to each route.  inp is a record of the *)
(* sets the inputs of the admin routes are drawn from.                     *)
(***************************************************************************)
AdminCalls(sid, inp) ==
  \/ \E body \in inp.newUsers : Register(sid, body)
  \/ \E id \in inp.userIds : DeleteUserRoute(sid, id)
  \/ \E id \in inp.userIds, body \in RoleBodies : PatchRole(sid, id, body)
  \/ \E id \in inp.userIds, body \in NameBodies : PatchUser(sid, id, body)
  \/ \E body \in inp.newGrades : CreateGradeRoute(sid, body)
  \/ \E id \in inp.gradeIds, body \in GradeBodies : UpdateGradeRoute(sid, id, body)
  \/ \E id \in inp.gradeIds : DeleteGradeRoute(sid, id)
  \/ \E body \in inp.newSubjects : CreateSubjectRoute(sid, body)
  \/ \E id \in inp.subjectIds, body \in SubjectBodies :
        UpdateSubjectRoute(sid, id, body)
  \/ \E id \in inp.subjectIds : DeleteSubjectRoute(sid, id)
  \/ \E a \in inp.newTeacherGrades : AssignTeacherGradeRoute(sid, a)
  \/ \E a \in inp.teacherGrades : RemoveTeacherGradeRoute(sid, a)
  \/ \E a \in inp.newTeacherSubjects : AssignTeacherSubjectRoute(sid, a)
  \/ \E a \in inp.teacherSubjects : RemoveTeacherSubjectRoute(sid, a)
  \/ \E body \in inp.newWeeks : CreatePlanningWeekRoute(sid, body)
  \/ \E id \in inp.weekIds : ToggleWeekRoute(sid, id)
  \/ \E id \in inp.weekIds : DeletePlanningWeekRoute(sid, id)

\* bodies that lack a required field
BadTeacherGradeBody == [teacherId |-> 2]
BadTeacherSubjectBody == [teacherId |-> 2, gradeId |-> 3]

\* inputs that name existing rows and carry bodies the schemas accept, and
\* bodies they reject
AllInputs ==
  [newUsers |-> UserBodies, userIds |-> {1, 2},
   newGrades |-> GradeBodies, gradeIds |-> {3},
   newSubjects |-> SubjectBodies, subjectIds |-> {1},
   newTeacherGrades |-> TeacherGrades({2}, {3}) \cup {BadTeacherGradeBody},
   teacherGrades |-> TeacherGrades({2}, {3}),
   newTeacherSubjects |-> Assignments({2}, {3}, {1}) \cup {BadTeacherSubjectBody},
   teacherSubjects |-> Assignments({2}, {3}, {1}),
   newWeeks |-> PlanningWeekBodies, weekIds |-> {1}]

\* the weekly-plan and daily-plan routes
PlanCalls(sid) ==
  \/ \E body \in WeeklyPlanBodies({3}, {1}, {1}) \cup {BadWeeklyPlanBody} :
        WPStart(1, sid, body)
  \/ PutNotes(sid, 1, "n1")
  \/ \E body \in DailyPlanBodies({1}, {1, 6}) : PostDailyPlan(sid, body)
  \/ \E body \in PartialDailyPlanBodies({}, {2, 6}, {}, {}) : PutDailyPlan(sid, 1, body)
  \/ GetTeacherPlans(sid, 2)
  \/ GetGradeWeekPlans(sid, 3, 1)
  \/ GetWeeklyPlan(sid, 1)
  \/ GetWeeklyPlanComplete(sid, 1)
  \/ GetDailyPlans(sid, 1)
  \/ ExportPdf(sid, 1)
  \/ ExportExcel(sid, 1)

\* requests without a session, beside the logins and the requests of the
\* signed-in users that fill the store
NextAnon ==
  \/ Quiet /\ LoginStep
  \/ Quiet /\ LogoutStep
  \/ Quiet /\ AssignStep(Assignments({2}, {3}, {1}))
  \/ Quiet /\ WPStartStep({1}, WeeklyPlanBodies({3}, {1}, {1}))
  \/ WPRunStep
  \/ Quiet /\ PostDailyStep(DailyPlanBodies({1}, {1}))
  \/ Quiet /\ Logout(NoSession)
  \/ Quiet /\ AdminCalls(NoSession, AllInputs)
  \/ Quiet /\ PlanCalls(NoSession)

SpecAnon == Init /\ [][NextAnon]_vars

\* C12: every request without an authenticated session, to any route other
\* than POST /api/login, is answered 401 'Unauthorized' and leaves the store
\* unchanged.
C12_AnonymousUnauthorized ==
  [][ ( /\ Answered
        /\ resp'.route # "POST /api/login"
        /\ ~isAuthenticated(resp'.by) ) =>
        /\ resp'.status = 401 /\ resp'.message = "Unauthorized"
        /\ tables' = tables ]_vars

(***************************************************************************)
(* Requests of signed-in users who are not administrators, beside the      *)
(* logins and the administrators' requests that register users, change     *)
(* roles and assign subjects.                                              *)
(***************************************************************************)
NonAdmin(sid) == isAuthenticated(sid) /\ ~reqUser(sid).isAdmin

NextTeacher ==
  \/ Quiet /\ LoginStep
  \/ Quiet /\ LogoutStep
  \/ Quiet /\ RegisterStep({[username |-> "alice", password |-> Lit("secret1"),
                             fullName |-> "Alice A"]})
  \/ Quiet /\ PatchRoleStep({2}, {[isAdmin |-> TRUE], [isAdmin |-> FALSE]})
  \/ Quiet /\ AssignStep(Assignments({2}, {3}, {1}))
  \/ Quiet /\ \E sid \in sessions : NonAdmin(sid) /\ AdminCalls(sid, AllInputs)
  \/ Quiet /\ \E sid \in sessions : NonAdmin(sid) /\ PlanCalls(sid)
  \/ WPRunStep

SpecTeacher == Init /\ [][NextTeacher]_vars

AdminOnlyRoutes == {RG, DU, PR, CG, UG, DG, CS, US, DS, AG, RTG, AS, RS, CW, TW, DW}

\* C13: a request by a signed-in user who is not an administrator changes no
\* user (other than the requester's own fullName), grade, subject,
\* teacher-grade or teacher-subject assignment or planning week, and every
\* route that changes one of them answers 403 to that user.
C13_NonAdminCannotMutate ==
  [][ ( /\ Answered
        /\ resp'.by \in sessions
        /\ resp'.by \in DOMAIN users
        /\ ~users[resp'.by].isAdmin ) =>
        /\ <<grades, subjects, teacherGrades, teacherSubjects, planningWeeks>>' =
             <<grades, subjects, teacherGrades, teacherSubjects, planningWeeks>>
        /\ DOMAIN users' = DOMAIN users
        /\ \A k \in DOMAIN users :
             \/ users'[k] = users[k]
             \/ /\ k = resp'.by
                /\ users'[k] = [users[k] EXCEPT !.fullName = users'[k].fullName]
        /\ resp'.route \in AdminOnlyRoutes => resp'.status = 403
        /\ resp'.route = PU /\ resp'.body.id # resp'.by => resp'.status = 403 ]_vars

\* a teacher renamed themself; another teacher's request to an admin route
\* is refused
C13_Witness ==
  /\ resp.route = PU /\ resp.status = 200
  /\ resp.by = 2 /\ resp.body.id = 2
  /\ ~users[2].isAdmin
  /\ users[2].fullName = "Alice A"

\* a string salt:hash whose hash is the scrypt digest of some password under
\* that salt
IsSaltedHash(password) ==
  /\ Len(password) = 2
  /\ password[2][1] = "scrypt"
  /\ password[2][3] = password[1]

\* C14: every stored User.password is a salt:hash string made by
\* hashPassword, never the plaintext.
C14_PasswordsHashed ==
  \A k \in DOMAIN users : IsSaltedHash(users[k].password)

(***************************************************************************)
(* hashPassword and verifyPassword called directly: a password is hashed   *)
(* under a fresh salt, then a supplied password is verified against the    *)
(* stored string.  Plaintexts are sequences of ':'-separated parts; one of *)
(* them holds a ':' and one is itself a salt:hash string.                  *)
(***************************************************************************)
MoreSalts == { <<"lit", "s1">>, <<"lit", "s2">> }

Plaintexts ==
  { Lit("admin123"), Lit("teacher123"), Lit(""),
    << <<"lit", "admin">>, <<"lit", "123">> >>,
    hashPassword(Lit("admin123"), <<"lit", "s1">>) }

InitPassword ==
  /\ InitStore
  /\ \E p \in Plaintexts, q \in Plaintexts, salt \in MoreSalts :
        call = [op |-> "start", plainPassword |-> p, suppliedPassword |-> q,
                salt |-> salt]

HashPasswordCall ==
  /\ call.op = "start"
  /\ call' = [op |-> "hashPassword", plainPassword |-> call.plainPassword,
              suppliedPassword |-> call.suppliedPassword,
              storedPassword |-> hashPassword(call.plainPassword, call.salt)]
  /\ UNCHANGED <<tables, now, pg, sessions, reqs, resp, tick>>

VerifyPasswordCall ==
  /\ call.op = "hashPassword"
  /\ call' = [op |-> "verifyPassword", plainPassword |-> call.plainPassword,
              suppliedPassword |-> call.suppliedPassword,
              storedPassword |-> call.storedPassword,
              result |-> verifyPassword(call.storedPassword,
                                        call.suppliedPassword)]
  /\ UNCHANGED <<tables, now, pg, sessions, reqs, resp, tick>>

NextPassword == HashPasswordCall \/ VerifyPasswordCall

SpecPassword == InitPassword /\ [][NextPassword]_vars

\* C15: verifyPassword(hashPassword(p), q) is true exactly when q = p, scrypt
\* being injective in the password and the salt.
C15_VerifyIffEqual ==
  call.op = "verifyPassword" =>
    (call.result <=> call.suppliedPassword = call.plainPassword)

\* the password with a ':' in it is verified against its own hash
C15_Witness ==
  /\ call.op = "verifyPassword"
  /\ call.plainPassword = << <<"lit", "admin">>, <<"lit", "123">> >>
  /\ call.suppliedPassword = call.plainPassword
  /\ call.result

(***************************************************************************)
(* Requests that are refused: every route asked by no one, by a teacher    *)
(* and by an administrator with bodies the schemas reject and ids of rows  *)
(* that do not exist, beside the requests that fill the store.             *)
(***************************************************************************)
RefusedInputs ==
  [newUsers |-> UserBodies \ {[username |-> "alice", password |-> Lit("secret1"),
                               fullName |-> "Alice A"]},
   userIds |-> {1, 3},
   newGrades |-> {[name |-> ""]}, gradeIds |-> {9},
   newSubjects |-> {[name |-> "Music"], [name |-> ""]}, subjectIds |-> {9},
   newTeacherGrades |-> {BadTeacherGradeBody},
   teacherGrades |-> TeacherGrades({1}, {3}),
   newTeacherSubjects |-> {BadTeacherSubjectBody},
   teacherSubjects |-> Assignments({1}, {3}, {1}),
   newWeeks |-> {b \in PlanningWeekBodies : ~ValidPlanningWeek(b)},
   weekIds |-> {9}]

NextRefused ==
  \/ Quiet /\ LoginStep
  \/ Quiet /\ LogoutStep
  \/ Quiet /\ AssignStep(Assignments({2}, {3}, {1}))
  \/ Quiet /\ \E sid \in sessions \cup {NoSession} : AdminCalls(sid, RefusedInputs)
  \/ Quiet /\ \E sid \in sessions \cup {NoSession} : PlanCalls(sid)
  \/ WPRunStep

SpecRefused == Init /\ [][NextRefused]_vars

\* C16: a response with a 4xx status leaves every table (and every id
\* counter) unchanged.
C16_RefusalChangesNothing ==
  [][ (Answered /\ resp'.status \in 400..499) => tables' = tables ]_vars

\* an update of a grade that does not exist is refused while the store holds
\* rows beyond the seeded ones
C16_Witness ==
  /\ resp.route = UG /\ resp.status = 404
  /\ resp.body.id = 9 /\ 9 \notin DOMAIN grades
  /\ weeklyPlans # EmptyMap

(***************************************************************************)
(* PgStorage (client/vite.config.ts), on the variable pg.  A method is an  *)
(* operator that gives the database after the call and the value returned; *)
(* Thrown stands for a rejected promise (a constraint of the schema was    *)
(* violated).  A serial id is drawn from its sequence before the           *)
(* constraints are checked, so a failed insert uses up an id.              *)
(***************************************************************************)
Thrown == [thrown |-> TRUE]

\* a method called directly on PgStorage; flip tells one call from the next
PgCall(op, args, out) ==
  /\ pg' = out.pg
  /\ call' = [on |-> "PgStorage", op |-> op, args |-> args,
              flip |-> 1 - call.flip, result |-> out.result]
  /\ UNCHANGED <<tables, now, sessions, reqs, resp, tick>>

\* weekly_plans: the four references are NOT NULL foreign keys
pgWeeklyPlanRefsOk(plan) ==
  /\ plan.teacherId \in DOMAIN pg.users
  /\ plan.gradeId \in DOMAIN pg.grades
  /\ plan.subjectId \in DOMAIN pg.subjects
  /\ plan.weekId \in DOMAIN pg.planningWeeks

\* insert ... returning; createdAt and updatedAt default to now()
pgCreateWeeklyPlan(plan) ==
  LET id == pg.nextId.weeklyPlanId
      drawn == [pg EXCEPT !.nextId.weeklyPlanId = @ + 1]
      row == Spread(plan, [id |-> id, createdAt |-> now, updatedAt |-> now])
  IN  IF pgWeeklyPlanRefsOk(plan)
      THEN [pg |-> [drawn EXCEPT !.weeklyPlans = MapSet(@, id, row)], result |-> row]
      ELSE [pg |-> drawn, result |-> Thrown]

\* update ... set notes = $1 where id = $2 returning
pgUpdateWeeklyPlanNotes(id, notes) ==
  IF id \in DOMAIN pg.weeklyPlans
  THEN LET row == Spread(pg.weeklyPlans[id], [notes |-> notes])
       IN  [pg |-> [pg EXCEPT !.weeklyPlans = MapSet(@, id, row)], result |-> row]
  ELSE [pg |-> pg, result |-> Undefined]

PgCreateWeeklyPlanCall(plans) ==
  \E plan \in plans :
    /\ pg.nextId.weeklyPlanId <= MaxWeeklyPlans
    /\ PgCall("createWeeklyPlan", plan, pgCreateWeeklyPlan(plan))

PgUpdateWeeklyPlanNotesCall(ids, ns) ==
  \E id \in ids, notes \in ns :
    PgCall("updateWeeklyPlanNotes", [id |-> id, notes |-> notes],
           pgUpdateWeeklyPlanNotes(id, notes))

\* the plans handed to createWeeklyPlan: the route's planData
StoredPlans(ts, gs, sjs, ws) ==
  { [teacherId |-> t, gradeId |-> g, subjectId |-> sj, weekId |-> w, notes |-> ""] :
      t \in ts, g \in gs, sj \in sjs, w \in ws }

(***************************************************************************)
(* Weekly plans are created and their notes replaced while the clock runs, *)
(* through the routes on MemStorage and by the same calls on PgStorage.    *)
(***************************************************************************)
NextNotes ==
  \/ Tick
  \/ Quiet /\ LoginStep
  \/ Quiet /\ AssignStep(Assignments({2}, {3}, {1}))
  \/ Quiet /\ WPStartStep({1}, WeeklyPlanBodies({3}, {1}, {1}))
  \/ WPRunStep
  \/ Quiet /\ NotesStep({1}, {"n1"})
  \/ PgCreateWeeklyPlanCall(StoredPlans({2}, {3}, {1}, {1}))
  \/ PgUpdateWeeklyPlanNotesCall({1}, {"n1"})

SpecNotes == Init /\ [][NextNotes]_vars

\* the fields of a weekly plan that an update of the notes leaves alone
PlanIdentity(plan) ==
  <<plan.id, plan.teacherId, plan.gradeId, plan.subjectId, plan.weekId,
    plan.createdAt>>

\* the plan after the update of its notes at the time now
NotesReplaced(before, after, notes) ==
  /\ after.notes = notes
  /\ after.updatedAt = now
  /\ after.updatedAt >= before.updatedAt
  /\ PlanIdentity(after) = PlanIdentity(before)

\* a successful PUT /api/weekly-plans/:id/notes on MemStorage
C17_MemNotes ==
  [][ (Answered /\ resp'.route = PN /\ resp'.status = 200) =>
        NotesReplaced(weeklyPlans[resp'.body.id], weeklyPlans'[resp'.body.id],
                      resp'.body.notes) ]_vars

\* every plan is created with createdAt = updatedAt, in both storages
C17_CreatedAtOnce ==
  [][ /\ \A id \in DOMAIN weeklyPlans' \ DOMAIN weeklyPlans :
           weeklyPlans'[id].createdAt = weeklyPlans'[id].updatedAt
      /\ \A id \in DOMAIN pg'.weeklyPlans \ DOMAIN pg.weeklyPlans :
           pg'.weeklyPlans[id].createdAt = pg'.weeklyPlans[id].updatedAt ]_vars

\* C17: a successful update of a weekly plan's notes sets notes to the
\* supplied value and updatedAt to the time of the update (never earlier than
\* the previous one) and leaves id, teacherId, gradeId, subjectId, weekId and
\* createdAt unchanged, in MemStorage and in PgStorage.
C17_NotesUpdate ==
  [][ /\ (Answered /\ resp'.route = PN /\ resp'.status = 200) =>
           NotesReplaced(weeklyPlans[resp'.body.id], weeklyPlans'[resp'.body.id],
                         resp'.body.notes)
      /\ ( /\ call' # call
           /\ call'.op = "updateWeeklyPlanNotes"
           /\ call'.result # Undefined ) =>
           NotesReplaced(pg.weeklyPlans[call'.args.id],
                         pg'.weeklyPlans[call'.args.id], call'.args.notes) ]_vars

(***************************************************************************)
(* Planning weeks are created, toggled and deleted.                        *)
(***************************************************************************)
CreateWeekStep(bodies) ==
  \E sid \in sessions, body \in bodies : CreatePlanningWeekRoute(sid, body)

NextWeeks ==
  \/ LoginStep
  \/ LogoutStep
  \/ CreateWeekStep(PlanningWeekBodies)
  \/ ToggleStep({1, 3})
  \/ DeleteWeekStep({2, 3})

SpecWeeks == Init /\ [][NextWeeks]_vars

InRange(week) == week.weekNumber \in 1..52 /\ week.year \in 2000..2100

\* a request of an administrator with a week number or a year out of range
\* is answered 400 and stores nothing, and every week stored is in range
C18_RangesChecked ==
  [][ /\ \A id \in DOMAIN planningWeeks' \ DOMAIN planningWeeks :
           InRange(planningWeeks'[id])
      /\ ( /\ Answered /\ resp'.route = CW /\ isAdmin(resp'.by)
           /\ ~InRange(resp'.body) ) =>
           resp'.status = 400 /\ tables' = tables ]_vars

\* C18: every planning week stored through POST /api/planning-weeks has
\* startDate <= endDate, 1 <= weekNumber <= 52 and 2000 <= year <= 2100; a
\* request that violates one of these is answered 400 and stores nothing.
C18_WeekValidated ==
  [][ /\ \A id \in DOMAIN planningWeeks' \ DOMAIN planningWeeks :
           /\ InRange(planningWeeks'[id])
           /\ planningWeeks'[id].startDate <= planningWeeks'[id].endDate
      /\ ( /\ Answered /\ resp'.route = CW /\ isAdmin(resp'.by)
           /\ ~(InRange(resp'.body) /\ resp'.body.startDate <= resp'.body.endDate) ) =>
           resp'.status = 400 /\ tables' = tables ]_vars

(***************************************************************************)
(* The same method called on MemStorage and on PgStorage, one call after   *)
(* the other: call holds what each of the two returned and whether it      *)
(* wrote to its store.                                                     *)
(***************************************************************************)
BothCall(op, args, memResult, memWrote, out) ==
  /\ pg' = out.pg
  /\ call' = [on |-> "both", op |-> op, args |-> args, flip |-> 1 - call.flip,
              mem |-> memResult, pg |-> out.result,
              memWrote |-> memWrote, pgWrote |-> out.pg # pg]
  /\ UNCHANGED <<now, sessions, reqs, resp, tick>>

\* the first of the rows in the order of their insertion
First(table, keys) == table[CHOOSE k \in keys : \A j \in keys : k <= j]

\* teacher_subjects: the three references are NOT NULL foreign keys
pgTeacherSubjectRefsOk(assignment) ==
  /\ assignment.teacherId \in DOMAIN pg.users
  /\ assignment.gradeId \in DOMAIN pg.grades
  /\ assignment.subjectId \in DOMAIN pg.subjects

pgMatchingTeacherSubjects(teacherId, gradeId, subjectId) ==
  {k \in DOMAIN pg.teacherSubjects :
     /\ pg.teacherSubjects[k].teacherId = teacherId
     /\ pg.teacherSubjects[k].gradeId = gradeId
     /\ pg.teacherSubjects[k].subjectId = subjectId}

\* select the matching rows; return the first, or insert ... returning
pgAssignTeacherToSubject(assignment) ==
  LET existingAssignment ==
        pgMatchingTeacherSubjects(assignment.teacherId, assignment.gradeId,
                                  assignment.subjectId)
      id == pg.nextId.teacherSubjectId
      drawn == [pg EXCEPT !.nextId.teacherSubjectId = @ + 1]
      row == Spread(assignment, [id |-> id])
  IN  IF existingAssignment # {}
      THEN [pg |-> pg, result |-> First(pg.teacherSubjects, existingAssignment)]
      ELSE IF pgTeacherSubjectRefsOk(assignment)
      THEN [pg |-> [drawn EXCEPT !.teacherSubjects = MapSet(@, id, row)],
            result |-> row]
      ELSE [pg |-> drawn, result |-> Thrown]

\* delete ... where the three ids match: true when a row was deleted
pgRemoveTeacherFromSubject(teacherId, gradeId, subjectId) ==
  LET hits == pgMatchingTeacherSubjects(teacherId, gradeId, subjectId)
      left == [k \in DOMAIN pg.teacherSubjects \ hits |-> pg.teacherSubjects[k]]
  IN  [pg |-> [pg EXCEPT !.teacherSubjects = left], result |-> hits # {}]

AssignTeacherToSubjectCall(as) ==
  \E a \in as :
    /\ nextId.teacherSubjectId <= MaxTeacherSubjects
    /\ pg.nextId.teacherSubjectId <= MaxTeacherSubjects
    /\ teacherSubjects' = assignTeacherToSubject(a)
    /\ nextId' = IF teacherSubjects' = teacherSubjects THEN nextId
                 ELSE [nextId EXCEPT !.teacherSubjectId = @ + 1]
    /\ BothCall("assignTeacherToSubject", a,
                First(teacherSubjects',
                      {k \in DOMAIN teacherSubjects' :
                         /\ teacherSubjects'[k].teacherId = a.teacherId
                         /\ teacherSubjects'[k].gradeId = a.gradeId
                         /\ teacherSubjects'[k].subjectId = a.subjectId}),
                teacherSubjects' # teacherSubjects,
                pgAssignTeacherToSubject(a))
    /\ UNCHANGED <<users, grades, subjects, teacherGrades, planningWeeks,
                   weeklyPlans, dailyPlans>>

RemoveTeacherFromSubjectCall(as) ==
  \E a \in as :
    /\ teacherSubjects' = removeTeacherFromSubject(a.teacherId, a.gradeId, a.subjectId)
    /\ BothCall("removeTeacherFromSubject", a,
                matchingTeacherSubjects(a.teacherId, a.gradeId, a.subjectId) # {},
                teacherSubjects' # teacherSubjects,
                pgRemoveTeacherFromSubject(a.teacherId, a.gradeId, a.subjectId))
    /\ UNCHANGED <<users, grades, subjects, teacherGrades, planningWeeks,
                   weeklyPlans, dailyPlans, nextId>>

NextAssign ==
  \/ AssignTeacherToSubjectCall(Assignments({1, 2}, {3}, {1, 4}))
  \/ RemoveTeacherFromSubjectCall(Assignments({1, 2}, {3}, {1, 4}))

SpecAssign == Init /\ [][NextAssign]_vars

SameTriple(a, b) ==
  /\ a.teacherId = b.teacherId /\ a.gradeId = b.gradeId
  /\ a.subjectId = b.subjectId

OnePerTriple(table) ==
  \A j \in DOMAIN table, k \in DOMAIN table :
     SameTriple(table[j], table[k]) => j = k

\* C19: assignTeacherToSubject called with a triple that is already assigned
\* returns the existing record and adds no row, and after any sequence of
\* assign and remove calls there is at most one TeacherSubject per triple, in
\* MemStorage and in PgStorage.
C19_AssignIdempotent ==
  [][ /\ OnePerTriple(teacherSubjects') /\ OnePerTriple(pg'.teacherSubjects)
      /\ call'.op = "assignTeacherToSubject" =>
           /\ \A k \in DOMAIN teacherSubjects :
                SameTriple(teacherSubjects[k], call'.args) =>
                  /\ call'.mem = teacherSubjects[k]
                  /\ teacherSubjects' = teacherSubjects /\ nextId' = nextId
           /\ \A k \in DOMAIN pg.teacherSubjects :
                SameTriple(pg.teacherSubjects[k], call'.args) =>
                  /\ call'.pg = pg.teacherSubjects[k]
                  /\ pg' = pg ]_vars

\* a triple was assigned again: both storages returned the row they hold
\* and wrote nothing
C19_Witness ==
  /\ call.op = "assignTeacherToSubject"
  /\ ~call.memWrote /\ ~call.pgWrote
  /\ call.mem.id \in DOMAIN teacherSubjects
  /\ teacherSubjects[call.mem.id] = call.mem
  /\ call.pg.id \in DOMAIN pg.teacherSubjects
  /\ pg.teacherSubjects[call.pg.id] = call.pg
  /\ SameTriple(call.mem, call.args) /\ SameTriple(call.pg, call.args)

(***************************************************************************)
(* More methods of IStorage called on both storages.                       *)
(***************************************************************************)
\* users.username is UNIQUE; the password is hashed under a fresh salt
pgCreateUser(user, salt) ==
  LET id == pg.nextId.userId
      drawn == [pg EXCEPT !.nextId.userId = @ + 1]
      userData == Spread(user, [password |-> hashPassword(user.password, salt)])
      row == Spread(userData, [id |-> id])
  IN  IF \E k \in DOMAIN pg.users : pg.users[k].username = user.username
      THEN [pg |-> drawn, result |-> Thrown]
      ELSE [pg |-> [drawn EXCEPT !.users = MapSet(@, id, row)], result |-> row]

\* teacher_grades: the two references are NOT NULL foreign keys
pgTeacherGradeRefsOk(assignment) ==
  /\ assignment.teacherId \in DOMAIN pg.users
  /\ assignment.gradeId \in DOMAIN pg.grades

\* insert ... returning, without a search for an existing row
pgAssignTeacherToGrade(assignment) ==
  LET id == pg.nextId.teacherGradeId
      drawn == [pg EXCEPT !.nextId.teacherGradeId = @ + 1]
      row == Spread(assignment, [id |-> id])
  IN  IF pgTeacherGradeRefsOk(assignment)
      THEN [pg |-> [drawn EXCEPT !.teacherGrades = MapSet(@, id, row)],
            result |-> row]
      ELSE [pg |-> drawn, result |-> Thrown]

CreateUserCall(us) ==
  \E user \in us, salt \in Salts :
    /\ nextId.userId <= MaxUsers /\ pg.nextId.userId <= MaxUsers
    /\ users' = createUser(user)
    /\ nextId' = [nextId EXCEPT !.userId = @ + 1]
    /\ BothCall("createUser", user, users'[nextId.userId], TRUE,
                pgCreateUser(user, salt))
    /\ UNCHANGED <<grades, subjects, teacherGrades, teacherSubjects,
                   planningWeeks, weeklyPlans, dailyPlans>>

AssignTeacherToGradeCall(as) ==
  \E a \in as :
    /\ nextId.teacherGradeId <= MaxTeacherGrades
    /\ pg.nextId.teacherGradeId <= MaxTeacherGrades
    /\ teacherGrades' = assignTeacherToGrade(a)
    /\ nextId' = IF teacherGrades' = teacherGrades THEN nextId
                 ELSE [nextId EXCEPT !.teacherGradeId = @ + 1]
    /\ BothCall("assignTeacherToGrade", a,
                First(teacherGrades',
                      {k \in DOMAIN teacherGrades' :
                         /\ teacherGrades'[k].teacherId = a.teacherId
                         /\ teacherGrades'[k].gradeId = a.gradeId}),
                teacherGrades' # teacherGrades,
                pgAssignTeacherToGrade(a))
    /\ UNCHANGED <<users, grades, subjects, teacherSubjects, planningWeeks,
                   weeklyPlans, dailyPlans>>

CreateWeeklyPlanCall(plans) ==
  \E plan \in plans :
    /\ nextId.weeklyPlanId <= MaxWeeklyPlans
    /\ pg.nextId.weeklyPlanId <= MaxWeeklyPlans
    /\ weeklyPlans' = createWeeklyPlan(plan)
    /\ nextId' = [nextId EXCEPT !.weeklyPlanId = @ + 1]
    /\ BothCall("createWeeklyPlan", plan, weeklyPlans'[nextId.weeklyPlanId], TRUE,
                pgCreateWeeklyPlan(plan))
    /\ UNCHANGED <<users, grades, subjects, teacherGrades, teacherSubjects,
                   planningWeeks, dailyPlans>>

UpdateWeeklyPlanNotesCall(ids, ns) ==
  \E id \in ids, notes \in ns :
    /\ weeklyPlans' = IF getWeeklyPlan(id) = Undefined THEN weeklyPlans
                      ELSE updateWeeklyPlanNotes(id, notes)
    /\ BothCall("updateWeeklyPlanNotes", [id |-> id, notes |-> notes],
                IF getWeeklyPlan(id) = Undefined THEN Undefined
                ELSE weeklyPlans'[id],
                weeklyPlans' # weeklyPlans,
                pgUpdateWeeklyPlanNotes(id, notes))
    /\ UNCHANGED <<users, grades, subjects, teacherGrades, teacherSubjects,
                   planningWeeks, dailyPlans, nextId>>

NextStorage ==
  \/ Tick
  \/ CreateUserCall({[username |-> "alice", password |-> Lit("secret1"),
                      fullName |-> "Alice A", isAdmin |-> FALSE],
                     [username |-> "teacher", password |-> Lit("secret1"),
                      fullName |-> "Alice A", isAdmin |-> FALSE]})
  \/ AssignTeacherToGradeCall(TeacherGrades({2, 9}, {3}))
  \/ AssignTeacherToSubjectCall(Assignments({2}, {3}, {1, 4}))
  \/ RemoveTeacherFromSubjectCall(Assignments({2}, {3}, {1}))
  \/ CreateWeeklyPlanCall(StoredPlans({2}, {3}, {1}, {1, 9}))
  \/ UpdateWeeklyPlanNotesCall({1, 2}, {"n1"})

SpecStorage == Init /\ [][NextStorage]_vars

\* the rows whose references are set (a NOT NULL column holds no undefined)
Referring(table) ==
  [k \in {j \in DOMAIN table : table[j].teacherId # UndefinedId} |-> table[k]]

SameRows ==
  /\ pg.users = users /\ pg.grades = grades /\ pg.subjects = subjects
  /\ pg.planningWeeks = planningWeeks
  /\ pg.teacherGrades = Referring(teacherGrades)
  /\ pg.teacherSubjects = Referring(teacherSubjects)
  /\ pg.weeklyPlans = weeklyPlans /\ pg.dailyPlans = dailyPlans

\* C20: MemStorage and PgStorage are interchangeable: from the same contents
\* and under the same sequence of IStorage calls they return equal results
\* and hold the same rows.
C20_Interchangeable ==
  /\ call.op # "" => call.mem = call.pg
  /\ SameRows

\* where the two agree: assignTeacherToSubject and removeTeacherFromSubject
\* called with rows that exist
C20_AssignAgrees ==
  /\ call.op # "" => call.mem = call.pg
  /\ pg.teacherSubjects = Referring(teacherSubjects)

(***************************************************************************)
(* POST /api/register as the two steps its awaits cut it into: the checks  *)
(* up to getUserByUsername, then createUser and the response.  Handlers of *)
(* other requests run between the two.                                     *)
(***************************************************************************)
RegStart(s, sid, body) ==
  LET userData == Spread([isAdmin |-> FALSE], body) IN
  /\ reqs[s].pc = "idle"
  /\ IF ~isAdmin(sid)
     THEN Reply(RG, 403, "Forbidden", sid, body, {}) /\ UNCHANGED reqs
     ELSE IF ~ValidUser(userData)
     THEN Reply(RG, 400, "Invalid", sid, body, {}) /\ UNCHANGED reqs
     ELSE IF getUserByUsername(userData.username) # Undefined
     THEN Reply(RG, 400, "Username already exists", sid, body, {})
          /\ UNCHANGED reqs
     ELSE /\ nextId.userId + InFlight <= MaxUsers
          /\ reqs' = [reqs EXCEPT ![s] =
                        [pc |-> "createUser", by |-> sid, body |-> body,
                         userData |-> userData]]
          /\ UNCHANGED <<resp, tick>>
  /\ UNCHANGED <<tables, now, pg, call, sessions>>

RegCreate(s) ==
  /\ reqs[s].pc = "createUser"
  /\ users' = createUser(reqs[s].userData)
  /\ nextId' = [nextId EXCEPT !.userId = @ + 1]
  /\ ReplyJson(RG, 201, reqs[s].by, reqs[s].body, {},
               publicUser(users'[nextId.userId]))
  /\ reqs' = [reqs EXCEPT ![s] = IdleReq]
  /\ UNCHANGED <<grades, subjects, teacherGrades, teacherSubjects, planningWeeks,
                 weeklyPlans, dailyPlans, now, pg, call, sessions>>

RegStartStep(slots, bodies) ==
  \E s \in slots, sid \in sessions, body \in bodies : RegStart(s, sid, body)

RegCreateStep == \E s \in Slots : RegCreate(s)

NextRegister ==
  \/ LoginStep
  \/ LogoutStep
  \/ RegStartStep(Slots, UserBodies \cup
                    {[username |-> "bob12", password |-> Lit("secret1"),
                      fullName |-> "Alice A"]})
  \/ RegCreateStep

SpecRegister == Init /\ [][NextRegister]_vars

UniqueUsernames ==
  \A j \in DOMAIN users, k \in DOMAIN users :
     users[j].username = users[k].username => j = k

C21_SequentialUnique ==
  [][ /\ UniqueUsernames'
      /\ ( /\ Answered /\ resp'.route = RG
           /\ isAdmin(resp'.by)
           /\ ValidUser(resp'.body)
           /\ getUserByUsername(resp'.body.username) # Undefined ) =>
           /\ resp'.status = 400
           /\ users' = users ]_vars

(***************************************************************************)
(* Grades and subjects are created and renamed.                            *)
(***************************************************************************)
CreateGradeStep(bodies) ==
  \E sid \in sessions, body \in bodies : CreateGradeRoute(sid, body)
UpdateGradeStep(ids, bodies) ==
  \E sid \in sessions, id \in ids, body \in bodies : UpdateGradeRoute(sid, id, body)
CreateSubjectStep(bodies) ==
  \E sid \in sessions, body \in bodies : CreateSubjectRoute(sid, body)
UpdateSubjectStep(ids, bodies) ==
  \E sid \in sessions, id \in ids, body \in bodies : UpdateSubjectRoute(sid, id, body)

NextCatalog ==
  \/ LoginStep
  \/ LogoutStep
  \/ CreateGradeStep(GradeBodies \cup {[name |-> "Grade 1"]})
  \/ UpdateGradeStep({2, 4}, GradeBodies \cup {[name |-> "Grade 1"]})
  \/ CreateSubjectStep(SubjectBodies \cup {[name |-> "Science", type |-> "standard"]})
  \/ UpdateSubjectStep({1, 6}, SubjectBodies \cup
                                 {[name |-> "Science", type |-> "standard"]})

SpecCatalog == Init /\ [][NextCatalog]_vars

UniqueNames(table) ==
  \A j \in DOMAIN table, k \in DOMAIN table :
     table[j].name = table[k].name => j = k

\* C22: no two grades share a name and no two subjects share a name, after
\* any sequence of create and update requests on /api/grades and
\* /api/subjects.
C22_UniqueNames == UniqueNames(grades) /\ UniqueNames(subjects)

(***************************************************************************)
(* POST /api/weekly-plans while an administrator toggles or deletes the    *)
(* week or removes the assignment: the other requests run between the      *)
(* handler's awaits.                                                       *)
(***************************************************************************)
NextInterleaved ==
  \/ LoginStep
  \/ AssignStep(Assignments({2}, {3}, {1}))
  \/ RemoveStep(Assignments({2}, {3}, {1}))
  \/ ToggleStep({1})
  \/ DeleteWeekStep({1})
  \/ WPStartStep({1}, WeeklyPlanBodies({3}, {1}, {1}))
  \/ WPRunStep

SpecInterleaved == Init /\ [][NextInterleaved]_vars

\* C23: whenever POST /api/weekly-plans inserts a WeeklyPlan, at the moment
\* of the insert the referenced PlanningWeek exists and is active and a
\* TeacherSubject (teacherId, gradeId, subjectId) exists, also when a toggle,
\* a deletion of the week or a removal of the assignment runs between the
\* handler's checks and its insert.
C23_EligibleAtInsert ==
  [][ \A id \in DOMAIN weeklyPlans' \ DOMAIN weeklyPlans :
        /\ ActiveWeek(weeklyPlans'[id])
        /\ HasTeacherSubject(weeklyPlans'[id].teacherId, weeklyPlans'[id]) ]_vars

(***************************************************************************)
(* PUT /api/planning-weeks/:id/toggle as the two steps the await in        *)
(* togglePlanningWeekActive cuts it into: the week is read, then the week  *)
(* read is stored with isActive negated.  Handlers of other requests run   *)
(* between the two.                                                        *)
(***************************************************************************)
ToggleRead(s, sid, id) ==
  /\ reqs[s].pc = "idle"
  /\ IF ~isAdmin(sid)
     THEN Reply(TW, 403, "Forbidden", sid, id, {}) /\ UNCHANGED reqs
     ELSE IF getPlanningWeek(id) = Undefined
     THEN Reply(TW, 404, "Planning week not found", sid, id, {}) /\ UNCHANGED reqs
     ELSE /\ reqs' = [reqs EXCEPT ![s] =
                        [pc |-> "toggle", by |-> sid, body |-> id,
                         week |-> getPlanningWeek(id)]]
          /\ UNCHANGED <<resp, tick>>
  /\ UNCHANGED <<tables, now, pg, call, sessions>>

\* { ...week, isActive: !week.isActive } of the week that was read
ToggleWrite(s) ==
  /\ reqs[s].pc = "toggle"
  /\ planningWeeks' =
       MapSet(planningWeeks, reqs[s].body,
              Spread(reqs[s].week, [isActive |-> ~reqs[s].week.isActive]))
  /\ Reply(TW, 200, "", reqs[s].by, reqs[s].body, {})
  /\ reqs' = [reqs EXCEPT ![s] = IdleReq]
  /\ UNCHANGED <<users, grades, subjects, teacherGrades, teacherSubjects,
                 weeklyPlans, dailyPlans, nextId, now, pg, call, sessions>>

ToggleReadStep(slots, ids) ==
  \E s \in slots, sid \in sessions, id \in ids : ToggleRead(s, sid, id)

ToggleWriteStep == \E s \in Slots : ToggleWrite(s)

NextToggle ==
  \/ LoginStep
  \/ LogoutStep
  \/ ToggleReadStep(Slots, {1, 2, 9})
  \/ ToggleWriteStep

SpecToggle == Init /\ [][NextToggle]_vars

\* C24: each successful PUT /api/planning-weeks/:id/toggle negates isActive
\* of that week and changes no other field or row, whether the toggles are
\* handled one after another or concurrently (so that isActive is back at
\* its first value exactly after an even number of them); a toggle of an
\* unknown id is answered 404 and changes nothing.
C24_ToggleNegates ==
  [][ /\ (Answered /\ resp'.route = TW /\ resp'.status = 200) =>
           /\ resp'.body \in DOMAIN planningWeeks
           /\ planningWeeks' =
                MapSet(planningWeeks, resp'.body,
                       Spread(planningWeeks[resp'.body],
                              [isActive |-> ~planningWeeks[resp'.body].isActive]))
           /\ <<users, grades, subjects, teacherGrades, teacherSubjects,
                weeklyPlans, dailyPlans, nextId>>' =
              <<users, grades, subjects, teacherGrades, teacherSubjects,
                weeklyPlans, dailyPlans, nextId>>
      /\ ( /\ Answered /\ resp'.route = TW /\ isAdmin(resp'.by)
           /\ resp'.body \notin DOMAIN planningWeeks ) =>
           resp'.status = 404 /\ tables' = tables ]_vars

(***************************************************************************)
(* The client's generateExcel (utils/excel-generator), called with a       *)
(* complete plan.  A text is a sequence of characters, null is Null; the   *)
(* CSV is the sequence of its lines, a line the sequence of its cells as   *)
(* they stand between the quotes.                                          *)
(***************************************************************************)
Null == <<"null">>

\* the fields shown for a subject type
getFieldsForSubjectType(subjectType) ==
  CASE subjectType = "standard" ->
         <<"topic", "booksAndPages", "homework", "homeworkDueDate",
           "assignments", "notes">>
    [] subjectType = "art" -> <<"topic", "requiredItems", "notes">>
    [] subjectType = "pe" -> <<"skill", "activity", "notes">>
    [] OTHER -> <<"topic", "notes">>

\* text.replace(/"/g, '""')
RECURSIVE replaceQuotes(_)
replaceQuotes(text) ==
  IF text = <<>> THEN <<>>
  ELSE (IF Head(text) = "\"" THEN <<"\"", "\"">> ELSE <<Head(text)>>)
       \o replaceQuotes(Tail(text))

\* value ? value.replace(/"/g, '""') : ""
cell(value) ==
  IF value = Null \/ value = <<>> THEN <<>> ELSE replaceQuotes(value)

\* dayMap[dayOfWeek] || `Day ${dayOfWeek}`
dayName(dayOfWeek) ==
  CASE dayOfWeek = 1 -> <<"Monday">>
    [] dayOfWeek = 2 -> <<"Tuesday">>
    [] dayOfWeek = 3 -> <<"Wednesday">>
    [] dayOfWeek = 4 -> <<"Thursday">>
    [] dayOfWeek = 5 -> <<"Friday">>
    [] OTHER -> <<"Day ", dayOfWeek>>

\* [...plans].sort((a, b) => a.dayOfWeek - b.dayOfWeek): a stable sort
RECURSIVE sortByDay(_)
sortByDay(plans) ==
  IF plans = <<>> THEN <<>>
  ELSE LET rest == sortByDay(Tail(plans))
           k == Cardinality({ i \in 1..Len(rest) :
                                rest[i].dayOfWeek < Head(plans).dayOfWeek })
       IN SubSeq(rest, 1, k) \o <<Head(plans)>> \o SubSeq(rest, k + 1, Len(rest))

\* one line with a single filled cell: `"...",,,,,`
TitleLine(text) == <<text, <<>>, <<>>, <<>>, <<>>, <<>>>>

\* the lines up to and including the column headers
excelPreamble(plan) ==
  << <<"sep=,">>,
     TitleLine(<<"Royal American School - Weekly Plan">>),
     TitleLine(<<"Grade: ", plan.grade.name>>),
     TitleLine(<<"Subject: ", plan.subject.name>>),
     TitleLine(<<"Teacher: ", plan.teacher.fullName>>),
     TitleLine(<<"Week: ", plan.week.weekNumber>>),
     TitleLine(<<"Generated: ">>),
     <<>> >>
  \o (IF plan.notes = Null \/ plan.notes = <<>> THEN <<>>
      ELSE <<TitleLine(<<"Notes:">>), TitleLine(replaceQuotes(plan.notes)), <<>>>>)
  \o << << <<"Day">>, <<"Topic">>, <<"Books & Pages">>, <<"Homework">>,
           <<"Assignments">>, <<"Required Items">> >> >>

\* the line of one daily plan, with the columns of the named fields
dailyLineOf(dailyPlan, fields) ==
  <<dayName(dailyPlan.dayOfWeek)>>
  \o [i \in 1..Len(fields) |-> cell(dailyPlan[fields[i]])]

\* generateExcel's line per daily plan: the same five fields for every type
dailyLine(dailyPlan) ==
  dailyLineOf(dailyPlan, <<"topic", "booksAndPages", "homework", "assignments",
                           "requiredItems">>)

\* the extra section, written only for the type 'physical_education'
skillLines(plan, sortedPlans) ==
  IF plan.subject.type = "physical_education"
  THEN << <<>>, << <<"Skills:">>, <<"Activities:">> >> >>
       \o [i \in 1..Len(sortedPlans) |->
             << dayName(sortedPlans[i].dayOfWeek) \o <<" - ">>
                  \o cell(sortedPlans[i].skill),
                cell(sortedPlans[i].activity) >>]
  ELSE <<>>

generateExcel(plan) ==
  LET sortedPlans == sortByDay(plan.dailyPlans) IN
  excelPreamble(plan)
  \o [i \in 1..Len(sortedPlans) |-> dailyLine(sortedPlans[i])]
  \o skillLines(plan, sortedPlans)

\* a stored daily plan of the given day; the fields of the other subject
\* types are null when `blank`
DailyPlanOf(d, blank) ==
  [id |-> d, weeklyPlanId |-> 1, dayOfWeek |-> d,
   topic |-> <<"t", "\"", "q", "\"">>,
   booksAndPages |-> IF blank THEN Null ELSE <<"b">>,
   homework |-> IF blank THEN Null ELSE <<"h">>,
   homeworkDueDate |-> IF blank THEN Null ELSE <<"2025-01-10">>,
   assignments |-> IF blank THEN Null ELSE <<"a">>,
   notes |-> <<"n">>,
   requiredItems |-> IF blank THEN Null ELSE <<"r">>,
   skill |-> <<"s">>,
   activity |-> <<"c">>]

MaxDays == 3

\* the orders in which up to MaxDays daily plans of distinct days are listed
DayOrders ==
  UNION { { o \in [1..n -> 1..MaxDays] :
              \A i, j \in 1..n : i # j => o[i] # o[j] } : n \in 0..MaxDays }

CompletePlans ==
  { [id |-> 1, teacherId |-> 2, gradeId |-> 1, subjectId |-> sj, weekId |-> 1,
     notes |-> notes,
     teacher |-> SeedUsers(<<"lit", "s1">>, <<"lit", "s2">>)[2], grade |-> SeedGrades[1],
     subject |-> SeedSubjects[sj], week |-> SeedPlanningWeeks[1],
     dailyPlans |-> [i \in DOMAIN o |-> DailyPlanOf(o[i], blank)]] :
      sj \in {1, 4, 5}, notes \in {Null, <<"x", "\"">>}, o \in DayOrders,
      blank \in BOOLEAN }

InitExcel ==
  /\ InitStore
  /\ \E plan \in CompletePlans : call = [op |-> "start", plan |-> plan]

GenerateExcelCall ==
  /\ call.op = "start"
  /\ call' = [op |-> "generateExcel", plan |-> call.plan,
              csvContent |-> generateExcel(call.plan)]
  /\ UNCHANGED <<tables, now, pg, sessions, reqs, resp, tick>>

NextExcel == GenerateExcelCall

SpecExcel == InitExcel /\ [][NextExcel]_vars

\* the lines after the preamble
DataLines(csvContent, plan) ==
  SubSeq(csvContent, Len(excelPreamble(plan)) + 1, Len(csvContent))

\* C25: after the preamble generateExcel writes one line per DailyPlan, in
\* ascending dayOfWeek, whose columns are the fields of the plan's subject
\* type (standard: topic, books, homework, due date, assignments, notes; art:
\* topic, required items, notes; pe: skill, activity, notes).
C25_ColumnsByType ==
  call.op = "generateExcel" =>
    LET plan == call.plan
        lines == DataLines(call.csvContent, plan)
        sorted == sortByDay(plan.dailyPlans)
    IN /\ Len(lines) = Len(plan.dailyPlans)
       /\ \A i \in 1..Len(lines) :
            lines[i] = dailyLineOf(sorted[i],
                                   getFieldsForSubjectType(plan.subject.type))

\* what does hold: one line per DailyPlan, each plan once, days ascending
C25_OneLinePerDay ==
  call.op = "generateExcel" =>
    LET plan == call.plan
        lines == DataLines(call.csvContent, plan)
    IN /\ Len(lines) = Len(plan.dailyPlans)
       /\ \A i \in 1..Len(lines) :
            \E j \in 1..Len(plan.dailyPlans) :
               lines[i][1] = dayName(plan.dailyPlans[j].dayOfWeek)
       /\ \A i, j \in 1..Len(lines) :
            i < j => \E a, b \in 1..MaxDays :
                        a < b /\ lines[i][1] = dayName(a) /\ lines[j][1] = dayName(b)

(***************************************************************************)
(* POST /api/weekly-plans by the admin and by the teacher, both assigned   *)
(* to Mathematics in Grade 3, with bodies that name either of them (or     *)
(* nobody) as teacherId.                                                   *)
(***************************************************************************)
NextOwner ==
  \/ Quiet /\ LoginStep
  \/ Quiet /\ LogoutStep
  \/ Quiet /\ AssignStep(Assignments({1, 2}, {3}, {1}))
  \/ Quiet /\ WPStartStep({1},
         WeeklyPlanBodies({3}, {1}, {1, 2})
         \cup { Spread(b, [teacherId |-> 2]) : b \in WeeklyPlanBodies({3}, {1}, {1, 2}) }
         \cup { [gradeId |-> 3, subjectId |-> 1, weekId |-> 1] })
  \/ WPRunStep

SpecOwner == Init /\ [][NextOwner]_vars

\* C26: every WeeklyPlan that POST /api/weekly-plans creates carries the id
\* of the authenticated requester as teacherId, whatever teacherId the body
\* holds; no other step adds a WeeklyPlan.
C26_RequesterIsTeacher ==
  [][ \A id \in DOMAIN weeklyPlans' \ DOMAIN weeklyPlans :
        /\ Answered /\ resp'.route = WP /\ resp'.status = 201
        /\ resp'.by \in sessions /\ resp'.by \in DOMAIN users
        /\ weeklyPlans'[id].teacherId = users[resp'.by].id ]_vars

\* the teacher has sent the admin's id as teacherId and the plan is stored
C26_Witness ==
  /\ resp.route = WP /\ resp.status = 201
  /\ resp.by = 2 /\ resp.body.teacherId = 1
  /\ \E id \in resp.data :
        id \in DOMAIN weeklyPlans /\ weeklyPlans[id].teacherId = 2

(***************************************************************************)
(* Registration followed by logins: the admin registers alice (always with *)
(* the password RegisteredPassword), users are deleted, and logins are     *)
(* tried with the seeded credentials, with alice's registered password and *)
(* with a wrong one.                                                       *)
(***************************************************************************)
RegisteredPassword == Lit("secret1")

SignIns ==
  LoginIn \cup { <<"alice", RegisteredPassword>>, <<"alice", Lit("admin123")>> }

SignInStep == \E in \in SignIns : Login(in[1], in[2])

NextSignIn ==
  \/ SignInStep
  \/ LogoutStep
  \/ RegisterStep(UserBodies)
  \/ DeleteUserStep({3, 4})

SpecSignIn == Init /\ [][NextSignIn]_vars

\* a user row that POST /api/register created (seeded ids are 1 and 2); each
\* of them was registered with RegisteredPassword
RegisteredAs(username) ==
  \E id \in DOMAIN users : id > 2 /\ users[id].username = username

\* C27: after POST /api/register succeeded for (username, password), and as
\* long as that user is not deleted, POST /api/login with the same
\* credentials succeeds and opens a session for that user, and a login with
\* the same username and any other password is answered 401.
C27_RegisteredCanLogIn ==
  [][ \A in \in SignIns :
        (Login(in[1], in[2]) /\ RegisteredAs(in[1])) =>
           IF in[2] = RegisteredPassword
           THEN /\ resp'.status = 200
                /\ resp'.by \in sessions'
                /\ users[resp'.by].username = in[1]
           ELSE resp'.status = 401 /\ sessions' = sessions ]_vars

\* the half that holds: a wrong password is refused
C27_WrongPasswordRefused ==
  [][ \A in \in SignIns :
        (Login(in[1], in[2]) /\ RegisteredAs(in[1]) /\ in[2] # RegisteredPassword)
          => resp'.status = 401 /\ sessions' = sessions ]_vars

(***************************************************************************)
(* Sessions that outlive a change of their user: the two seeded users log  *)
(* in and never log out, administrators change roles and delete users, and *)
(* every signed-in user keeps sending requests.                            *)
(***************************************************************************)
NextSession ==
  \/ LoginStep
  \/ PatchRoleStep({1, 2}, {[isAdmin |-> TRUE], [isAdmin |-> FALSE]})
  \/ DeleteUserStep({1, 2})
  \/ RegisterStep({[username |-> "alice", password |-> Lit("secret1"),
                    fullName |-> "Alice A"]})
  \/ PatchUserStep({1, 2}, NameBodies)
  \/ ReadStep({2}, {3}, {1}, {1})

SpecSession == Init /\ [][NextSession]_vars

AuthenticatedRoutes == {PU, GT, GG, GP, GC, GD, EP, EX}

C28_WitnessDeleted ==
  /\ 2 \in sessions /\ 2 \notin DOMAIN users
  /\ resp.by = 2 /\ resp.route \in AuthenticatedRoutes /\ resp.status = 401

\* C29: with requests handled one at a time, every reachable state holds at
\* least one User with isAdmin = TRUE: roles are changed and users deleted
\* only by an administrator, and never the administrator's own.
C29_SomeAdmin == \E id \in DOMAIN users : users[id].isAdmin

\* the seeded admin has been deleted by the administrator it had promoted
C29_Witness ==
  /\ 1 \notin DOMAIN users
  /\ 2 \in DOMAIN users /\ users[2].isAdmin
  /\ resp.route = DU /\ resp.status = 200 /\ resp.by = 2 /\ resp.body = 1

\* the User objects a JSON payload holds: the payload itself, the teacher of
\* a complete plan, or the teacher of the plan an export wraps
UsersIn(json) ==
  (IF "username" \in DOMAIN json THEN {json} ELSE {})
  \cup (IF "teacher" \in DOMAIN json THEN {json.teacher} ELSE {})
  \cup (IF "plan" \in DOMAIN json THEN {json.plan.teacher} ELSE {})

\* C30: no response carries the stored password (plaintext or hash) of a
\* User, the teacher embedded in GET /api/weekly-plans/:id/complete and in
\* the two export routes included.
C30_NoPasswordInResponse ==
  "json" \in DOMAIN resp =>
     \A user \in UsersIn(resp.json) : "password" \notin DOMAIN user

\* the routes that build the user object field by field do keep it out
C30_PublicUserRoutes ==
  ("json" \in DOMAIN resp /\ resp.route \in {"POST /api/login", RG, PR, PU}) =>
     /\ UsersIn(resp.json) # {}
     /\ \A user \in UsersIn(resp.json) : "password" \notin DOMAIN user

====
